---------------------------- MODULE Spec2Model ----------------------------
(***************************************************************************)
(* The Janus Engine: one run of generate_analysis against the remote file  *)
(* store and the remote generation API.                                    *)
(*                                                                         *)
(* Two revisions of generate_analysis are modelled, chosen by `strategy':  *)
(*   "two_tier"  src/The-Janus-Engine-v7.2.py (General -> Soldier)          *)
(*   "direct"    src/TheJanusEngineV5.py      (one generation call)        *)
(* Both share upload_to_gemini (MIME resolution, upload, polling, final    *)
(* state check).  The remote services are the environment: every remote    *)
(* call either raises or returns one of a small set of values.             *)
(*                                                                         *)
(* Texts are sequences of tokens; the token " " is whitespace.  Python's   *)
(* None is the record None for file handles and the empty option <<>>      *)
(* for an optional text (Some(t) is <<t>>).                                *)
(***************************************************************************)
EXTENDS Integers, Sequences, FiniteSets, TLC

\* ------------------------------------------------------------- bounds
\* Longest text a generation call returns.
MaxTextLen == 2
\* Largest number of seconds one remote get call takes.
MaxLatency == 1
\* Pipeline runs: longest text a generation call returns.
MaxPipelineTextLen == 1
\* Pipeline runs: get calls after which the store no longer reports
\* PROCESSING.
MaxPipelinePolls == 1
\* Longest analysis text handed to a synthesis generator called on its own.
MaxSynthTextLen == 2

\* ------------------------------------------------- program constants
M_TEXT == "Text Analysis"
M_IMAGE == "Image Analysis"
M_AUDIO == "Audio Analysis"
MODALITIES == {M_TEXT, M_IMAGE, M_AUDIO}

POLL_INTERVAL == 3
TIMEOUT == 300

GENERIC_MIME == "application/octet-stream"

A_SINGLE == "Single Lens"
A_DIALECTICAL == "Dialectical Dialogue (2 Lenses)"
A_SYMPOSIUM == "Symposium (3+ Lenses)"
A_COMPARATIVE == "Comparative Synthesis (2 Works)"
ANALYSIS_MODES == {A_SINGLE, A_DIALECTICAL, A_SYMPOSIUM, A_COMPARATIVE}

\* Symposium sidebar: min_selections.
MIN_SELECTIONS == 3

\* -------------------------------------------------------------- state
VARIABLES
    strategy,       \* which revision of generate_analysis runs
    work_input,     \* the WorkInput argument
    latency,        \* seconds each get_file call of this run takes
    pc,             \* position in generate_analysis / upload_to_gemini
    clock,          \* time.time()
    start_time,     \* upload_to_gemini: start of polling
    mime_type,      \* upload_to_gemini: resolved MIME type
    uploaded_file,  \* upload_to_gemini: the handle being polled
    gemini_file,    \* generate_analysis: the handle upload returned, or None
    remote,         \* remote store: names of the files that exist
    reported,       \* remote store: states reported for the file, in order
    nSleep,         \* time.sleep calls made
    nGet,           \* genai.get_file calls made
    calls,          \* other remote calls made, in order
    errors,         \* st.error messages shown, by kind, in order
    soldier_prompt, \* generate_analysis: the stripped General text
    result,         \* generate_analysis: return value once pc = "done"
    analysis_mode,  \* st.session_state.analysis_mode
    selection,      \* st.session_state.selection
    api_key,        \* st.session_state.api_key
    work_a,         \* the script run's work_a
    work_b,         \* the script run's work_b (comparative mode)
    app_pc,         \* position of the script run in the execution block
    analyze_calls,  \* generate_analysis calls of this run: lens and work
    analyses,       \* the values those calls returned, in order
    synthesis_calls,  \* generation calls made by the synthesis generators
    synthesis_result, \* value the synthesis generator returned
    page,           \* what the run has shown: subheaders, warnings, errors
    LENSES_HIERARCHY,   \* the lens catalog
    SORTED_LENS_NAMES,  \* the flattened catalog, once computed
    mapping,            \* create_functional_mapping: the tier assignment
    LENSES_FUNCTIONAL,  \* the functional mapping, once computed
    logged,             \* logging.warning calls: the set each one names
    lens_key,           \* create_persona_name: the lens key it is called with
    persona_titles,     \* the values its calls returned, by revision, in order
    ready               \* what work_input.is_ready() returned, once called

functionalVars == <<mapping, LENSES_FUNCTIONAL, logged>>

personaVars == <<lens_key, persona_titles>>

catalogVars ==
    <<LENSES_HIERARCHY, SORTED_LENS_NAMES, functionalVars, personaVars, ready>>

appVars == <<analysis_mode, selection, api_key, work_a, work_b, app_pc,
             analyze_calls, analyses, synthesis_calls, synthesis_result, page,
             catalogVars>>

vars == <<strategy, work_input, latency, pc, clock, start_time, mime_type,
          uploaded_file, gemini_file, remote, reported, nSleep, nGet, calls,
          errors, soldier_prompt, result, appVars>>

inputVars == <<strategy, work_input, latency>>
pollVars == <<clock, start_time, reported, nSleep, nGet>>
uploadVars == <<mime_type, uploaded_file>>
genVars == <<soldier_prompt, result>>

\* ------------------------------------------------------ value spaces
WS == " "
Chars == {WS, "a"}

RECURSIVE SeqsUpTo(_, _)
SeqsUpTo(S, n) ==
    IF n = 0 THEN {<< >>}
    ELSE LET shorter == SeqsUpTo(S, n - 1)
         IN  shorter \cup {Append(s, c) : s \in shorter, c \in S}

\* The texts a generation call may return.
Texts == SeqsUpTo(Chars, MaxTextLen)
\* The texts a generation call may return in a pipeline run.
PipelineTexts == SeqsUpTo(Chars, MaxPipelineTextLen)

\* Python's None for an optional text, and a present text.
NoText == << >>
Some(t) == << t >>

\* Python truth value of an optional text (`if analysis_text:'): None and
\* the empty string are both false.
Truthy(r) == r # NoText /\ r # Some(<< >>)

\* States a remote file may be reported in.  "STATE_UNSPECIFIED" stands for
\* every state other than the three the code names.
FileStates == {"PROCESSING", "ACTIVE", "FAILED", "STATE_UNSPECIFIED"}

\* Python's None for a remote file handle.
None == [name |-> "", state |-> ""]
File(n, s) == [name |-> n, state |-> s]

\* The name the remote store gives to the file of this run.
RemoteName == "files/1"

\* Streamlit UploadedFile objects: declared type ("" is absent) and name.
DeclaredTypes == {"", GENERIC_MIME, "image/png"}
FileNames == {"work.mp3", "work"}
NoUpload == [present |-> FALSE, type |-> "", name |-> ""]
UploadedFiles ==
    {[present |-> TRUE, type |-> t, name |-> n] : t \in DeclaredTypes, n \in FileNames}

Titles == {<< >>, <<"T">>}

\* WorkInput values: a text work carries inline text (possibly empty), a
\* media work carries an UploadedFile object or none.
WorkInputs ==
    {[title |-> t, modality |-> M_TEXT, data |-> d, uploaded_file_obj |-> NoUpload] :
        t \in Titles, d \in {<< >>, <<"w">>}}
    \cup
    {[title |-> <<"T">>, modality |-> m, data |-> << >>, uploaded_file_obj |-> f] :
        m \in {M_IMAGE, M_AUDIO}, f \in UploadedFiles \cup {NoUpload}}

\* ---------------------------------------------------- pure functions
\* WorkInput.get_display_title
get_display_title(w) == IF w.title # << >> THEN w.title ELSE <<"(Untitled)">>

\* mimetypes.guess_type(file_name)[0]: by extension, "" when unknown.
guess_type(file_name) == IF file_name = "work.mp3" THEN "audio/mpeg" ELSE ""

\* Mutant of ResolveMimeType: the extension guess wins whenever there is one.
ResolveMimeType_GuessFirst(declared, file_name) ==
    IF guess_type(file_name) # "" THEN guess_type(file_name) ELSE declared

\* upload_to_gemini, step 1: the MIME type sent with the upload ("" when none).
ResolveMimeType(declared, file_name) ==
    IF declared = "" \/ declared = GENERIC_MIME
    THEN IF guess_type(file_name) # "" THEN guess_type(file_name) ELSE declared
    ELSE declared

\* str.strip(): leading and trailing whitespace removed.
RECURSIVE LStrip(_)
LStrip(s) == IF s # << >> /\ Head(s) = WS THEN LStrip(Tail(s)) ELSE s
RECURSIVE RStrip(_)
RStrip(s) ==
    IF s # << >> /\ s[Len(s)] = WS THEN RStrip(SubSeq(s, 1, Len(s) - 1)) ELSE s
Strip(s) == RStrip(LStrip(s))


\* Mutant of StillProcessing: poll until the state is ACTIVE.
StillProcessing_UntilActive(state_name) == state_name # "ACTIVE"

\* upload_to_gemini, loop condition: poll again while the state is PROCESSING.
StillProcessing(state_name) == state_name = "PROCESSING"

\* Mutant of TimedOut: one more poll interval allowed before giving up.
TimedOut_Late(now, start) == now - start > TIMEOUT + POLL_INTERVAL

\* Mutant of TimedOut: the ceiling read as minutes.
TimedOut_Minutes(now, start) == now - start > TIMEOUT * 60

\* upload_to_gemini, loop guard: the ceiling test made before each sleep.
TimedOut(now, start) == now - start > TIMEOUT

\* Mutant of FinalStateCheck: every state but FAILED returns the handle.
FinalStateCheck_NotFailed(state_name) ==
    IF state_name = "FAILED" THEN "RemoteProcessingFailed" ELSE "return"

\* upload_to_gemini, step 4: what the final state check does with a state.
FinalStateCheck(state_name) ==
    IF state_name = "FAILED" THEN "RemoteProcessingFailed"
    ELSE IF state_name = "ACTIVE" THEN "return"
    ELSE "UnexpectedState"

\* Parts of the content list handed to model.generate_content.
TextPart(t) == [kind |-> "text", text |-> t, file |-> None]
FilePart(f) == [kind |-> "file", text |-> << >>, file |-> f]

\* generate_meta_prompt_instructions: the General's instructions.
generate_meta_prompt_instructions(work_modality) == <<"META_PROMPT", work_modality>>

\* Mutant of ContentInputGeneral: the General is not shown the uploaded file.
ContentInputGeneral_NoFile(w, f) ==
    << TextPart(generate_meta_prompt_instructions(w.modality)) >>
    \o (IF w.modality = M_TEXT
        THEN << TextPart(<<"--- The Creative Work (For Context) ---", "Title:">>
                         \o get_display_title(w) \o <<"Work:">> \o w.data) >>
        ELSE << >>)

\* generate_analysis (v7.2), step 1: the General's content list.
ContentInputGeneral(w, f) ==
    << TextPart(generate_meta_prompt_instructions(w.modality)) >>
    \o (IF w.modality = M_TEXT
        THEN << TextPart(<<"--- The Creative Work (For Context) ---", "Title:">>
                         \o get_display_title(w) \o <<"Work:">> \o w.data) >>
        ELSE IF f # None THEN << FilePart(f) >> ELSE << >>)

\* Mutant of ContentInputSoldier: the work is not appended to the prompt.
ContentInputSoldier_NoWork(prompt, w, f) == << TextPart(prompt) >>

\* generate_analysis (v7.2), step 2: the Soldier's content list.
ContentInputSoldier(prompt, w, f) ==
    IF w.modality = M_TEXT
    THEN << TextPart(prompt \o <<"--- The Creative Work (To Be Analyzed) ---", "Title:">>
                     \o get_display_title(w) \o <<"Work:">> \o w.data) >>
    ELSE << TextPart(prompt) >> \o (IF f # None THEN << FilePart(f) >> ELSE << >>)

\* generate_analysis (V5): the single content list.
ContentInputDirect(w, f) ==
    IF w.modality = M_TEXT
    THEN << TextPart(<<"BASE_PROMPT", "The work is as follows:", "Title:">>
                     \o get_display_title(w) \o <<"Work:">> \o w.data) >>
    ELSE << TextPart(<<IF w.modality = M_IMAGE THEN "IMAGE_INSTRUCTION"
                       ELSE "AUDIO_INSTRUCTION", "BASE_PROMPT", "Title:">>
                     \o get_display_title(w)),
            FilePart(f) >>

\* Mutant of NeedsCleanup: delete_file attempted whatever gemini_file holds.
NeedsCleanup_Always(f) == TRUE

\* Mutant of NeedsCleanup: the finally block never attempts delete_file.
NeedsCleanup_Never(f) == FALSE

\* Mutant of NeedsCleanup: cleanup only on the success path.
NeedsCleanup_OnSuccessOnly(f) == f # None /\ result # NoText

\* generate_analysis, finally block: whether delete_file is attempted.
NeedsCleanup(f) == f # None

\* Entries of the log of remote calls (get_file calls are counted in nGet).
\* `raised' tells whether the call raised; `response' is the text of a
\* generation call that returned.
UploadCall(n, mime, r) ==
    [op |-> "upload_file", phase |-> "", content |-> << >>, name |-> n,
     mime_type |-> mime, timeout |-> 0, raised |-> r, response |-> NoText]
GenerateCall(ph, content, t, r, resp) ==
    [op |-> "generate_content", phase |-> ph, content |-> content, name |-> "",
     mime_type |-> "", timeout |-> t, raised |-> r, response |-> resp]
DeleteCall(n, r) ==
    [op |-> "delete_file", phase |-> "", content |-> << >>, name |-> n,
     mime_type |-> "", timeout |-> 0, raised |-> r, response |-> NoText]

\* ------------------------------------------- lens names and selections
\* Lens names are sequences of tokens; "(" and ")" are tokens of their own.
LensNames == {<<"Jungian">>, <<"Marxist">>, <<"Systems", " Theory">>}

\* What a selectbox with index=None holds before a choice is made.
NoLens == << >>

RECURSIVE DistinctSeqs(_)
\* Values of st.multiselect over the options S: the chosen options, each at
\* most once, in the order chosen.
DistinctSeqs(S) ==
    {<< >>} \cup UNION {{<<x>> \o s : s \in DistinctSeqs(S \ {x})} : x \in S}

\* st.session_state.selection: None, one lens name, or a list of lens names.
SelNone == [kind |-> "None", items |-> << >>]
SelStr(l) == [kind |-> "str", items |-> <<l>>]
SelList(ls) == [kind |-> "list", items |-> ls]

\* Python truth value of a selection (`if selection').
SelTruthy(sel) ==
    \/ sel.kind = "str" /\ sel.items[1] # << >>
    \/ sel.kind = "list" /\ sel.items # << >>

\* Mutant of is_ready: either field makes the work ready, whatever the
\* modality.
is_ready_EitherField(w) == Len(w.data) > 0 \/ w.uploaded_file_obj.present

\* WorkInput.is_ready
is_ready(w) ==
    IF w.modality = M_TEXT THEN Len(w.data) > 0 ELSE w.uploaded_file_obj.present

\* Mutant of SidebarSelection: the same lens chosen twice is stored as a
\* pair.
SidebarSelection_SameAllowed(mode, specific_lens, lens_a, lens_b, selected_lenses) ==
    IF mode \in {A_SINGLE, A_COMPARATIVE}
    THEN IF specific_lens # NoLens THEN SelStr(specific_lens) ELSE SelNone
    ELSE IF mode = A_DIALECTICAL
    THEN IF lens_a # NoLens /\ lens_b # NoLens
         THEN SelList(<<lens_a, lens_b>>)
         ELSE SelList(<< >>)
    ELSE IF Len(selected_lenses) >= MIN_SELECTIONS
         THEN SelList(selected_lenses)
         ELSE SelList(<< >>)

\* The sidebar's lens selection widgets: the value stored in
\* st.session_state.selection for the widget values of this run.
SidebarSelection(mode, specific_lens, lens_a, lens_b, selected_lenses) ==
    IF mode \in {A_SINGLE, A_COMPARATIVE}
    THEN IF specific_lens # NoLens THEN SelStr(specific_lens) ELSE SelNone
    ELSE IF mode = A_DIALECTICAL
    THEN IF lens_a # NoLens /\ lens_b # NoLens
         THEN IF lens_a = lens_b THEN SelList(<< >>) ELSE SelList(<<lens_a, lens_b>>)
         ELSE SelList(<< >>)
    ELSE IF Len(selected_lenses) > 0 /\ Len(selected_lenses) < MIN_SELECTIONS
         THEN SelList(<< >>)
         ELSE IF Len(selected_lenses) >= MIN_SELECTIONS
              THEN SelList(selected_lenses)
              ELSE SelList(<< >>)

\* Main page: whether the analysis form (with the Execute button) is shown.
display_analysis_form(mode, sel) ==
    IF mode \in {A_SINGLE, A_COMPARATIVE} THEN SelTruthy(sel)
    ELSE IF mode = A_DIALECTICAL THEN SelTruthy(sel) /\ Len(sel.items) = 2
    ELSE SelTruthy(sel) /\ Len(sel.items) >= 3

\* ------------------------------------------------------ prompt texts
NL == "\n"

FirstIndex(s, c) == CHOOSE i \in DOMAIN s : s[i] = c /\ \A j \in 1..(i - 1) : s[j] # c

RECURSIVE SplitLines(_)
\* str.splitlines on "\n": the lines of a text.
SplitLines(s) ==
    IF \A i \in DOMAIN s : s[i] # NL THEN <<s>>
    ELSE LET i == FirstIndex(s, NL)
         IN  <<SubSeq(s, 1, i - 1)>> \o SplitLines(SubSeq(s, i + 1, Len(s)))

RECURSIVE JoinLines(_)
JoinLines(lines) ==
    IF Len(lines) = 0 THEN << >>
    ELSE IF Len(lines) = 1 THEN lines[1]
    ELSE lines[1] \o <<NL>> \o JoinLines(Tail(lines))

\* textwrap.dedent: a line of whitespace only.
IsBlankLine(l) == \A i \in DOMAIN l : l[i] = WS
Indent(l) == Len(l) - Len(LStrip(l))
\* textwrap.dedent: the margin common to the lines that are not blank.
Margin(lines) ==
    LET nb == {i \in DOMAIN lines : ~IsBlankLine(lines[i])}
    IN  IF nb = {} THEN 0
        ELSE CHOOSE m \in {Indent(lines[i]) : i \in nb} :
                 \A i \in nb : m <= Indent(lines[i])

\* textwrap.dedent(text): blank lines are emptied, the common margin is
\* removed from the others.
Dedent(s) ==
    LET lines == SplitLines(s)
        m == Margin(lines)
    IN  JoinLines([i \in DOMAIN lines |->
                      IF IsBlankLine(lines[i]) THEN << >>
                      ELSE SubSeq(lines[i], m + 1, Len(lines[i]))])

\* The source indentation of the prompt templates.
Ind4 == <<WS, WS, WS, WS>>
Ind8 == Ind4 \o Ind4

\* s occurs in h as a contiguous run (Python: s in h).
Contains(h, s) ==
    \E i \in 0..(Len(h) - Len(s)) : SubSeq(h, i + 1, i + Len(s)) = s

\* ---------------------------------------------------- create_persona_name
Has(s, c) == \E i \in DOMAIN s : s[i] = c
\* str.replace(c, ""): every occurrence of the token removed.
Remove(s, c) == SelectSeq(s, LAMBDA t : t # c)
\* str.split(c)[1]: what lies between the first and the second c.
SplitSecond(s, c) ==
    LET rest == SubSeq(s, FirstIndex(s, c) + 1, Len(s))
    IN  IF Has(rest, c) THEN SubSeq(rest, 1, FirstIndex(rest, c) - 1) ELSE rest

\* create_persona_name: the core term of a lens name.
OperativeTerm(lens_name) ==
    IF Has(lens_name, "(") THEN Remove(SplitSecond(lens_name, "("), ")")
    ELSE lens_name

\* Mutant of Scholar: the function falls through and returns nothing.
Scholar_Nothing(name) == << >>

\* create_persona_name: the fallback title.
Scholar(name) == <<"The ">> \o name \o <<" Scholar">>

\* "Theory" in name.
HasTheory(name) == Has(name, "Theory") \/ Has(name, " Theory")

\* create_persona_name: the title of the "Theory" family.
Theorist(name) == <<"The ">> \o Remove(name, " Theory") \o <<" Theorist">>

\* create_persona_name (V3): the persona title of a lens name.
create_persona_name_V3(lens_name) ==
    LET name == OperativeTerm(lens_name)
    IN  IF name = <<"Structural & Formalist">> THEN <<"The Formalist">>
        ELSE IF name = <<"Historical & Biographical">> THEN <<"The Historian">>
        ELSE IF name = <<"Comparative">> THEN <<"The Comparativist">>
        ELSE IF name \in {<<"Jungian">>, <<"Freudian">>}
             THEN <<"The ">> \o name \o <<" Analyst">>
        ELSE IF name \in {<<"Marxist">>, <<"Feminist">>}
             THEN <<"The ">> \o name \o <<" Critic">>
        ELSE IF name \in {<<"Existentialist">>, <<"Taoist">>}
             THEN <<"The ">> \o name \o <<" Philosopher">>
        ELSE IF HasTheory(name) \/ name = <<"Post-Colonial">> THEN Theorist(name)
        ELSE Scholar(name)

\* create_persona_name (V5): the persona title of a lens name.
create_persona_name(lens_name) ==
    LET name == OperativeTerm(lens_name)
    IN  IF name = <<"Structural & Formalist">> THEN <<"The Formalist">>
        ELSE IF name = <<"Historical & Biographical">> THEN <<"The Historian">>
        ELSE IF name = <<"Comparative">> \/ name = <<"General">>
             THEN <<"The Comparativist">>
        ELSE IF name \in {<<"Jungian">>, <<"Freudian">>}
             THEN <<"The ">> \o name \o <<" Analyst">>
        ELSE IF name = <<"Evolutionary Psychology">>
             THEN <<"The Evolutionary Psychologist">>
        ELSE IF name = <<"Behaviorism">> THEN <<"The Behaviorist">>
        ELSE IF name \in {<<"Marxist">>, <<"Feminist">>}
             THEN <<"The ">> \o name \o <<" Critic">>
        ELSE IF name \in {<<"Existentialist">>, <<"Taoist">>, <<"Phenomenological">>}
             THEN <<"The ">> \o name \o <<" Philosopher">>
        ELSE IF name = <<"Stoicism">> THEN <<"The Stoic Philosopher">>
        ELSE IF name = <<"Platonism">> THEN <<"The Platonic Philosopher">>
        ELSE IF name \in {<<"Utilitarian", "ism">>, <<"Virtue Ethics">>}
             THEN <<"The ">> \o Remove(name, "ism") \o <<" Ethicist">>
        ELSE IF name = <<"Cognitive Science">> THEN <<"The Cognitive Scientist">>
        ELSE IF name = <<"Systems", " Theory">> THEN <<"The Systems Theorist">>
        ELSE IF name = <<"Ecocriticism">> THEN <<"The Ecocritic">>
        ELSE IF name = <<"Buddhist">> THEN <<"The Buddhist Scholar">>
        ELSE IF name = <<"Western Esotericism">> THEN <<"The Esotericist">>
        ELSE IF HasTheory(name) \/ name = <<"Post-Colonial">> THEN Theorist(name)
        ELSE Scholar(name)

\* ------------------------------------------------- synthesis prompts
\* generate_dialectical_synthesis (v7.2): the f-string before dedent.  The
\* personas are left to the model.
DialecticalTemplate(lens_a_name, analysis_a, lens_b_name, analysis_b, work_title) ==
    <<NL>> \o Ind4 \o <<"You are tasked with creating a \"Dialectical Dialogue\" regarding the creative work titled \"">>
        \o work_title \o <<"\". This dialogue must synthesize two distinct analytical perspectives.", NL>>
    \o <<NL>>
    \o Ind4 \o <<"Perspective A Lens: ">> \o lens_a_name \o <<NL>>
    \o Ind4 \o <<"<analysis_a>", NL>>
    \o Ind4 \o analysis_a \o <<NL>>
    \o Ind4 \o <<"</analysis_a>", NL>>
    \o <<NL>>
    \o Ind4 \o <<"Perspective B Lens: ">> \o lens_b_name \o <<NL>>
    \o Ind4 \o <<"<analysis_b>", NL>>
    \o Ind4 \o analysis_b \o <<NL>>
    \o Ind4 \o <<"</analysis_b>", NL>>
    \o <<NL>>
    \o Ind4 \o <<"Instructions:", NL>>
    \o Ind4 \o <<"1. **Format as Dialogue:** Create a structured conversation.", NL>>
    \o Ind4 \o <<"2. **Determine Personas (Strict Requirement):** ...", NL>>
    \o Ind8 \o <<"For example:", NL>>
    \o Ind8 \o <<"- If the lens is 'Phenomenology', the title MUST be '",
                 "The Phenomenologist", "'.", NL>>
    \o Ind8 \o <<"- If the lens is 'Marxist', the title MUST be '",
                 "The ", "Marxist", " Critic", "'.", NL>>
    \o Ind8 \o <<"- If the lens is 'Systems Theory', the title MUST be '",
                 "The Systems Theorist", "'.", NL>>
    \o Ind4 \o <<"3. **Formatting:** ...", NL>>
    \o Ind4 \o <<"4. **Interaction:** ...", NL>>
    \o Ind4 \o <<"5. **Aufheben / Synthesis:** ...", NL>>
    \o <<NL>>
    \o Ind4 \o <<"Begin the dialogue immediately.", NL>>
    \o Ind4

\* generate_dialectical_synthesis (V5): the f-string before dedent, with
\* the persona titles computed by create_persona_name.
DialecticalTemplateV5(lens_a_name, analysis_a, lens_b_name, analysis_b, work_title) ==
    <<NL>> \o Ind4 \o <<"You are tasked with creating a \"Dialectical Dialogue\" regarding the creative work titled \"">>
        \o work_title \o <<"\". This dialogue must synthesize two distinct analytical perspectives ...", NL>>
    \o <<NL>>
    \o Ind4 \o <<"Perspective A: ">> \o lens_a_name \o <<NL>>
    \o Ind4 \o <<"<analysis_a>", NL>>
    \o Ind4 \o analysis_a \o <<NL>>
    \o Ind4 \o <<"</analysis_a>", NL>>
    \o <<NL>>
    \o Ind4 \o <<"Perspective B: ">> \o lens_b_name \o <<NL>>
    \o Ind4 \o <<"<analysis_b>", NL>>
    \o Ind4 \o analysis_b \o <<NL>>
    \o Ind4 \o <<"</analysis_b>", NL>>
    \o <<NL>>
    \o Ind4 \o <<"Instructions:", NL>>
    \o Ind4 \o <<"1. **Format as Dialogue:** ... Persona A must be titled \"**">>
        \o create_persona_name(lens_a_name)
        \o <<"**\" and Persona B must be titled \"**">>
        \o create_persona_name(lens_b_name) \o <<"**\".", NL>>
    \o Ind4 \o <<"2. **Interaction:** ...", NL>>
    \o Ind4 \o <<"3. **Aufheben / Synthesis:** ...", NL>>
    \o <<NL>>
    \o Ind4 \o <<"Begin the dialogue immediately.", NL>>
    \o Ind4

\* generate_dialectical_synthesis: synthesis_prompt, by revision.
DialecticalPrompt(rev, lens_a_name, analysis_a, lens_b_name, analysis_b, work_title) ==
    IF rev = "direct"
    THEN Dedent(DialecticalTemplateV5(lens_a_name, analysis_a, lens_b_name,
                                      analysis_b, work_title))
    ELSE Dedent(DialecticalTemplate(lens_a_name, analysis_a, lens_b_name,
                                    analysis_b, work_title))

\* generate_symposium_synthesis: one part per entry of analyses_dict
\* (a sequence of <<lens_name, analysis_text>> pairs, in insertion order).
SymposiumParts(analyses_dict) ==
    [i \in DOMAIN analyses_dict |->
        <<"<analysis lens='">> \o analyses_dict[i][1] \o <<"'>", NL>>
        \o analyses_dict[i][2] \o <<NL, "</analysis>", NL>>]

\* generate_symposium_synthesis: synthesis_prompt.
SymposiumPrompt(analyses_dict, work_title) ==
    JoinLines(
        << Dedent(<<NL>> \o Ind4 \o <<"You are tasked with creating a \"Symposium Dialogue\" regarding the creative work titled \"">>
                  \o work_title \o <<"\".", NL>>
                  \o Ind4 \o <<"This dialogue must synthesize multiple distinct analytical perspectives into a cohesive discussion.", NL>>
                  \o <<NL>>
                  \o Ind4 \o <<"--- Provided Analyses ---", NL>>
                  \o Ind4) >>
        \o SymposiumParts(analyses_dict)
        \o << Dedent(<<NL>> \o Ind4 \o <<"--- Instructions ---", NL>>
                     \o Ind4 \o <<"1. **Format as Dialogue:** ...", NL>>
                     \o Ind4 \o <<"2. **Determine Personas (Strict Requirement):** ...", NL>>
                     \o Ind8 \o <<"For example:", NL>>
                     \o Ind4 \o <<"3. **Formatting:** ...", NL>>
                     \o Ind4 \o <<"4. **Interaction and Flow:** ...", NL>>
                     \o Ind4 \o <<"5. **Holistic Synthesis:** ...", NL>>
                     \o <<NL>>
                     \o Ind4 \o <<"Begin the dialogue immediately.", NL>>
                     \o Ind4) >>)

\* generate_comparative_synthesis: synthesis_prompt.
ComparativePrompt(lens_name, analysis_a, work_a_title, analysis_b, work_b_title) ==
    Dedent(<<NL>> \o Ind4 \o <<"You are tasked with generating a \"Comparative Synthesis\". ... through the same analytical lens: **">>
           \o lens_name \o <<"**.", NL>>
           \o <<NL>>
           \o Ind4 \o <<"Work A Title: ">> \o work_a_title \o <<NL>>
           \o Ind4 \o <<"<analysis_a>", NL>>
           \o Ind4 \o analysis_a \o <<NL>>
           \o Ind4 \o <<"</analysis_a>", NL>>
           \o <<NL>>
           \o Ind4 \o <<"Work B Title: ">> \o work_b_title \o <<NL>>
           \o Ind4 \o <<"<analysis_b>", NL>>
           \o Ind4 \o analysis_b \o <<NL>>
           \o Ind4 \o <<"</analysis_b>", NL>>
           \o <<NL>>
           \o Ind4 \o <<"Instructions:", NL>>
           \o Ind4 \o <<"1. **Identify Key Themes:** ... under the ">> \o lens_name \o <<" lens.", NL>>
           \o Ind4 \o <<"2. **Dissonance and Resonance:** ...", NL>>
           \o Ind4 \o <<"3. **Emergent Insights:** ...", NL>>
           \o Ind4 \o <<"4. **Structure:** ...", NL>>
           \o Ind4)

\* One generation call of a synthesis generator.
SynthesisCall(generator, prompt, t, r, resp) ==
    [generator |-> generator, prompt |-> prompt, timeout |-> t, raised |-> r,
     response |-> resp]

\* What the page shows: subheaders, warnings, errors (st.subheader,
\* st.warning, st.error), with the step numbers and lens they carry.
Shown(kind, text, step, total, lens) ==
    [kind |-> kind, text |-> text, step |-> step, total |-> total, lens |-> lens]

\* --------------------------------------------------------------- init
\* WorkInput(): the work of a script run before its widgets are read.
EmptyWork ==
    [title |-> << >>, modality |-> M_TEXT, data |-> << >>, uploaded_file_obj |-> NoUpload]

\* Session state initialization; no script run has executed anything.
AppInit ==
    /\ analysis_mode = A_SINGLE
    /\ selection = SelNone
    /\ api_key = ""
    /\ work_a = EmptyWork
    /\ work_b = EmptyWork
    /\ app_pc = "idle"
    /\ analyze_calls = << >>
    /\ analyses = << >>
    /\ synthesis_calls = << >>
    /\ synthesis_result = NoText
    /\ page = << >>

\* The catalog plays no part: it is empty, and so is its flattening.
NoFunctional ==
    /\ mapping = << >>
    /\ LENSES_FUNCTIONAL = << >>
    /\ logged = << >>

NoPersona ==
    /\ lens_key = [main_lens |-> << >>, sub_lens |-> << >>]
    /\ persona_titles = << >>

NoCatalog ==
    /\ LENSES_HIERARCHY = << >>
    /\ SORTED_LENS_NAMES = << >>
    /\ NoFunctional
    /\ NoPersona
    /\ ready = << >>

Init ==
    /\ strategy \in {"two_tier", "direct"}
    /\ work_input \in WorkInputs
    /\ latency \in 0..MaxLatency
    /\ pc = "start"
    /\ clock = 0
    /\ start_time = 0
    /\ mime_type = ""
    /\ uploaded_file = None
    /\ gemini_file = None
    /\ remote = {}
    /\ reported = << >>
    /\ nSleep = 0
    /\ nGet = 0
    /\ calls = << >>
    /\ errors = << >>
    /\ soldier_prompt = << >>
    /\ result = NoText
    /\ AppInit
    /\ NoCatalog

\* ------------------------------------------------- generate_analysis
\* Step 0: a media work is uploaded first; a text work goes straight to
\* the generation call(s).
PrepareInput ==
    /\ pc = "start"
    /\ pc' = IF work_input.modality \in {M_IMAGE, M_AUDIO} THEN "upload_to_gemini"
             ELSE IF strategy = "two_tier" THEN "general" ELSE "generate"
    /\ UNCHANGED <<appVars, inputVars, pollVars, uploadVars, genVars, gemini_file, remote,
                   calls, errors>>

\* --------------------------------------------------- upload_to_gemini
\* upload_to_gemini returns None: generate_analysis stores it in gemini_file.
UploadFails(kind) ==
    /\ errors' = Append(errors, kind)
    /\ gemini_file' = None
    /\ pc' = "upload_returned"

\* No file object, or step 1 (MIME type): no remote call has been made.
ResolveMime ==
    /\ pc = "upload_to_gemini"
    /\ IF ~work_input.uploaded_file_obj.present
       THEN UploadFails("NoFileObject") /\ UNCHANGED mime_type
       ELSE LET mt == ResolveMimeType(work_input.uploaded_file_obj.type,
                                      work_input.uploaded_file_obj.name)
            IN  /\ mime_type' = mt
                /\ IF mt = ""
                   THEN UploadFails("MimeTypeUnknown")
                   ELSE pc' = "upload_file" /\ UNCHANGED <<errors, gemini_file>>
    /\ UNCHANGED <<appVars, inputVars, pollVars, genVars, uploaded_file, remote, calls>>

\* Step 2: genai.upload_file raises, or creates the remote file and returns
\* its handle in whatever state the store reports; polling starts.
UploadFile ==
    /\ pc = "upload_file"
    /\ \/ /\ calls' = Append(calls, UploadCall(RemoteName, mime_type, TRUE))
          /\ UploadFails("UploadException")
          /\ UNCHANGED <<uploaded_file, remote, reported, start_time>>
       \/ \E s \in FileStates :
             /\ calls' = Append(calls, UploadCall(RemoteName, mime_type, FALSE))
             /\ uploaded_file' = File(RemoteName, s)
             /\ remote' = remote \cup {RemoteName}
             /\ reported' = <<s>>
             /\ start_time' = clock
             /\ pc' = "poll"
             /\ UNCHANGED <<errors, gemini_file>>
    /\ UNCHANGED <<appVars, inputVars, genVars, mime_type, clock, nSleep, nGet>>

\* Step 3, loop head: leave the loop once the state is not PROCESSING;
\* otherwise raise TimeoutError past the ceiling, else go on to sleep.
PollCheck ==
    /\ pc = "poll"
    /\ IF ~StillProcessing(uploaded_file.state)
       THEN pc' = "final_state" /\ UNCHANGED <<errors, gemini_file>>
       ELSE IF TimedOut(clock, start_time)
            THEN UploadFails("UploadTimeout")
            ELSE pc' = "sleep" /\ UNCHANGED <<errors, gemini_file>>
    /\ UNCHANGED <<appVars, inputVars, pollVars, uploadVars, genVars, remote, calls>>

\* time.sleep(POLL_INTERVAL)
PollSleep ==
    /\ pc = "sleep"
    /\ clock' = clock + POLL_INTERVAL
    /\ nSleep' = nSleep + 1
    /\ pc' = "get_file"
    /\ UNCHANGED <<appVars, inputVars, uploadVars, genVars, start_time, reported, nGet,
                   gemini_file, remote, calls, errors>>

\* genai.get_file(uploaded_file.name): raises, or returns the refreshed handle.
PollGet ==
    /\ pc = "get_file"
    /\ nGet' = nGet + 1
    /\ clock' = clock + latency
    /\ \/ /\ UploadFails("UploadException")
          /\ UNCHANGED <<uploaded_file, reported>>
       \/ \E s \in FileStates :
             /\ uploaded_file' = File(uploaded_file.name, s)
             /\ reported' = Append(reported, s)
             /\ pc' = "poll"
             /\ UNCHANGED <<errors, gemini_file>>
    /\ UNCHANGED <<appVars, inputVars, genVars, mime_type, start_time, nSleep, remote, calls>>

\* Step 4: final state check.
FinalState ==
    /\ pc = "final_state"
    /\ LET outcome == FinalStateCheck(uploaded_file.state)
       IN  IF outcome = "return"
           THEN /\ gemini_file' = uploaded_file
                /\ pc' = "upload_returned"
                /\ UNCHANGED errors
           ELSE UploadFails(outcome)
    /\ UNCHANGED <<appVars, inputVars, pollVars, uploadVars, genVars, remote, calls>>


\* Back in generate_analysis: without a handle the attempt ends (return None,
\* then the finally block); with one it goes on to the generation call(s).
UploadReturned ==
    /\ pc = "upload_returned"
    /\ IF gemini_file = None
       THEN pc' = "finally" /\ result' = NoText
       ELSE /\ pc' = IF strategy = "two_tier" THEN "general" ELSE "generate"
            /\ UNCHANGED result
    /\ UNCHANGED <<appVars, inputVars, pollVars, uploadVars, soldier_prompt, gemini_file,
                   remote, calls, errors>>

\* Mutant of AnalysisFails: the failed generation call is issued again.
AnalysisFails_Retry ==
    /\ errors' = Append(errors, "AnalysisError")
    /\ result' = NoText
    /\ pc' = pc

\* The except block of generate_analysis: st.error, return None.
AnalysisFails ==
    /\ errors' = Append(errors, "AnalysisError")
    /\ result' = NoText
    /\ pc' = "finally"

\* v7.2, step 1: the General.  The call (or reading .text) raises, or the
\* stripped text becomes the Soldier prompt.
General ==
    /\ pc = "general"
    /\ strategy = "two_tier"
    /\ LET content == ContentInputGeneral(work_input, gemini_file)
       IN  \/ /\ calls' = Append(calls, GenerateCall("general", content, 400, TRUE, NoText))
              /\ AnalysisFails
              /\ UNCHANGED soldier_prompt
           \/ \E t \in Texts :
                 /\ calls' = Append(calls,
                                    GenerateCall("general", content, 400, FALSE, Some(t)))
                 /\ soldier_prompt' = Strip(t)
                 /\ pc' = "soldier"
                 /\ UNCHANGED <<errors, result>>
    /\ UNCHANGED <<appVars, inputVars, pollVars, uploadVars, gemini_file, remote>>

\* v7.2, step 2: the Soldier.  Its text is the return value.
Soldier ==
    /\ pc = "soldier"
    /\ LET content == ContentInputSoldier(soldier_prompt, work_input, gemini_file)
       IN  \/ /\ calls' = Append(calls, GenerateCall("soldier", content, 600, TRUE, NoText))
              /\ AnalysisFails
           \/ \E t \in Texts :
                 /\ calls' = Append(calls,
                                    GenerateCall("soldier", content, 600, FALSE, Some(t)))
                 /\ result' = Some(t)
                 /\ pc' = "finally"
                 /\ UNCHANGED errors
    /\ UNCHANGED <<appVars, inputVars, pollVars, uploadVars, soldier_prompt, gemini_file, remote>>

\* V5: the single generation call.  Its text is the return value.
Generate ==
    /\ pc = "generate"
    /\ strategy = "direct"
    /\ LET content == ContentInputDirect(work_input, gemini_file)
       IN  \/ /\ calls' = Append(calls, GenerateCall("direct", content, 600, TRUE, NoText))
              /\ AnalysisFails
           \/ \E t \in Texts :
                 /\ calls' = Append(calls,
                                    GenerateCall("direct", content, 600, FALSE, Some(t)))
                 /\ result' = Some(t)
                 /\ pc' = "finally"
                 /\ UNCHANGED errors
    /\ UNCHANGED <<appVars, inputVars, pollVars, uploadVars, soldier_prompt, gemini_file, remote>>

\* Mutant of Finally: a delete_file that raises turns the analysis into a
\* failure.
Finally_Escalates ==
    /\ pc = "finally"
    /\ IF NeedsCleanup(gemini_file)
       THEN \E raised \in BOOLEAN :
               /\ calls' = Append(calls, DeleteCall(gemini_file.name, raised))
               /\ remote' = IF raised THEN remote ELSE remote \ {gemini_file.name}
               /\ result' = IF raised THEN NoText ELSE result
       ELSE UNCHANGED <<calls, remote, result>>
    /\ pc' = "done"
    /\ UNCHANGED <<appVars, inputVars, pollVars, uploadVars, soldier_prompt,
                   gemini_file, errors>>

\* The finally block: delete_file on the handle held, if any; a failure of
\* the delete is logged and swallowed.  Then generate_analysis returns.
Finally ==
    /\ pc = "finally"
    /\ IF NeedsCleanup(gemini_file)
       THEN \E raised \in BOOLEAN :
               /\ calls' = Append(calls, DeleteCall(gemini_file.name, raised))
               /\ remote' = IF raised THEN remote ELSE remote \ {gemini_file.name}
       ELSE UNCHANGED <<calls, remote>>
    /\ pc' = "done"
    /\ UNCHANGED <<appVars, inputVars, pollVars, uploadVars, genVars, gemini_file, errors>>

Next ==
    \/ PrepareInput
    \/ ResolveMime
    \/ UploadFile
    \/ PollCheck
    \/ PollSleep
    \/ PollGet
    \/ FinalState
    \/ UploadReturned
    \/ General
    \/ Soldier
    \/ Generate
    \/ Finally

Spec == Init /\ [][Next]_vars

\* The run is scheduled to completion: a step that is possible is taken.
FairSpec == Spec /\ WF_vars(Next)

\* ------------------------------------------------- the script run (v7.2)
ApiKeys == {"", "key"}

\* The works a script run reads from its input widgets.
PipelineWorks ==
    { [title |-> <<"T">>, modality |-> M_TEXT, data |-> <<"w">>,
       uploaded_file_obj |-> NoUpload],
      [title |-> << >>, modality |-> M_TEXT, data |-> << >>,
       uploaded_file_obj |-> NoUpload],
      [title |-> <<"T">>, modality |-> M_IMAGE, data |-> << >>,
       uploaded_file_obj |-> [present |-> TRUE, type |-> "image/png", name |-> "work"]],
      [title |-> <<"T">>, modality |-> M_AUDIO, data |-> << >>,
       uploaded_file_obj |-> NoUpload] }

analysisLocals ==
    <<work_input, pc, clock, start_time, mime_type, uploaded_file, gemini_file,
      reported, nSleep, nGet, calls, errors, soldier_prompt, result>>

\* No generate_analysis call is under way or has been made in this run.
ResetAnalysis ==
    /\ work_input' = EmptyWork
    /\ pc' = "idle"
    /\ clock' = 0
    /\ start_time' = 0
    /\ mime_type' = ""
    /\ uploaded_file' = None
    /\ gemini_file' = None
    /\ reported' = << >>
    /\ nSleep' = 0
    /\ nGet' = 0
    /\ calls' = << >>
    /\ errors' = << >>
    /\ soldier_prompt' = << >>
    /\ result' = NoText
    /\ analyze_calls' = << >>

\* generate_analysis(model, lens_keyword, work) is entered: the call is
\* logged after the earlier ones, its locals are fresh, time is measured
\* from its entry.
BeginAnalysis(earlier, lens_keyword, work) ==
    /\ analyze_calls' = Append(earlier, [lens |-> lens_keyword, work |-> work])
    /\ work_input' = work
    /\ pc' = "start"
    /\ clock' = 0
    /\ start_time' = 0
    /\ mime_type' = ""
    /\ uploaded_file' = None
    /\ gemini_file' = None
    /\ reported' = << >>
    /\ nSleep' = 0
    /\ nGet' = 0
    /\ calls' = << >>
    /\ errors' = << >>
    /\ soldier_prompt' = << >>
    /\ result' = NoText

\* Mutant of ValidationWarnings: work B is not looked at.
ValidationWarnings_NoWorkB(key, wa, wb, mode) ==
    (IF key = "" THEN <<Shown("warning", "Please enter your Gemini API Key", 0, 0, NoLens)>>
     ELSE << >>)
    \o (IF ~is_ready(wa)
        THEN <<Shown("warning", "Please provide the creative work (Work A)", 0, 0, NoLens)>>
        ELSE << >>)

\* Execute validation: the warnings shown; none means is_valid.
ValidationWarnings(key, wa, wb, mode) ==
    (IF key = "" THEN <<Shown("warning", "Please enter your Gemini API Key", 0, 0, NoLens)>>
     ELSE << >>)
    \o (IF ~is_ready(wa)
        THEN <<Shown("warning", "Please provide the creative work (Work A)", 0, 0, NoLens)>>
        ELSE << >>)
    \o (IF mode = A_COMPARATIVE /\ ~is_ready(wb)
        THEN <<Shown("warning", "Please provide the second creative work (Work B)", 0, 0, NoLens)>>
        ELSE << >>)

\* The subheader shown before the first generate_analysis call of a mode.
FirstSubheader(mode, sel) ==
    IF mode = A_SINGLE THEN << >>
    ELSE IF mode = A_DIALECTICAL
    THEN <<Shown("subheader", "Thesis", 1, 3, sel.items[1])>>
    ELSE IF mode = A_SYMPOSIUM
    THEN <<Shown("subheader", "Analyzing", 1, Len(sel.items) + 1, sel.items[1])>>
    ELSE <<Shown("subheader", "Analyzing Work A", 1, 3, NoLens)>>

\* Mutant of ModeChanged: the radio value is never compared with the
\* stored mode.
ModeChanged_Never(m) == FALSE

\* `if analysis_mode != st.session_state.analysis_mode'.
ModeChanged(m) == m # analysis_mode

\* One script run, from the sidebar down to the Execute button: the widget
\* values are read, a change of mode resets the selection and reruns,
\* otherwise the sidebar stores the selection, and a click on Execute that
\* passes validation and obtains a model enters the execution block.
ScriptRun ==
    /\ app_pc = "idle"
    /\ \E m \in ANALYSIS_MODES, key \in ApiKeys :
          /\ api_key' = key
          /\ analysis_mode' = m
          /\ IF ModeChanged(m)
             THEN /\ selection' = SelNone
                  /\ work_a' = EmptyWork
                  /\ work_b' = EmptyWork
                  /\ page' = << >>
                  /\ app_pc' = "idle"
                  /\ ResetAnalysis
             ELSE \E specific_lens \in IF m \in {A_SINGLE, A_COMPARATIVE}
                                       THEN LensNames \cup {NoLens} ELSE {NoLens},
                     lens_a \in IF m = A_DIALECTICAL THEN LensNames \cup {NoLens}
                                ELSE {NoLens},
                     lens_b \in IF m = A_DIALECTICAL THEN LensNames \cup {NoLens}
                                ELSE {NoLens},
                     selected_lenses \in IF m = A_SYMPOSIUM THEN DistinctSeqs(LensNames)
                                         ELSE {<< >>} :
                     LET sel == SidebarSelection(m, specific_lens, lens_a, lens_b,
                                                 selected_lenses)
                         shown == display_analysis_form(m, sel)
                     IN  /\ selection' = sel
                         /\ \E wa \in IF shown THEN PipelineWorks ELSE {EmptyWork},
                               wb \in IF shown /\ m = A_COMPARATIVE THEN PipelineWorks
                                      ELSE {EmptyWork},
                               clicked \in IF shown THEN BOOLEAN ELSE {FALSE} :
                               LET warnings == ValidationWarnings(key, wa, wb, m)
                               IN  /\ work_a' = wa
                                   /\ work_b' = wb
                                   /\ IF ~clicked
                                      THEN /\ page' = << >>
                                           /\ app_pc' = "finished"
                                           /\ ResetAnalysis
                                      ELSE IF warnings # << >>
                                      THEN /\ page' = warnings
                                           /\ app_pc' = "finished"
                                           /\ ResetAnalysis
                                      ELSE \/ /\ page' = <<Shown("error", "Failed to initialize Gemini API", 0, 0, NoLens)>>
                                              /\ app_pc' = "finished"
                                              /\ ResetAnalysis
                                           \/ /\ page' = FirstSubheader(m, sel)
                                              /\ app_pc' = "analysis"
                                              /\ BeginAnalysis(<< >>, sel.items[1], wa)
    /\ analyses' = << >>
    /\ synthesis_calls' = << >>
    /\ synthesis_result' = NoText
    /\ UNCHANGED <<strategy, latency, remote, catalogVars>>

\* The script run is over: its locals and its output are gone, the session
\* state stays for the next run.
RunEnds ==
    /\ app_pc = "finished"
    /\ app_pc' = "idle"
    /\ work_a' = EmptyWork
    /\ work_b' = EmptyWork
    /\ page' = << >>
    /\ analyses' = << >>
    /\ synthesis_calls' = << >>
    /\ synthesis_result' = NoText
    /\ ResetAnalysis
    /\ UNCHANGED <<strategy, latency, remote, analysis_mode, selection, api_key,
                   catalogVars>>

\* The st.error messages generate_analysis and upload_to_gemini have shown.
ErrorsShown(es) == [i \in DOMAIN es |-> Shown("error", es[i], 0, 0, NoLens)]

\* Mutant of Returned: the caller goes on as soon as the Soldier is reached.
Returned_Early == pc \in {"soldier", "finally", "done"}

\* The generate_analysis call under way has returned to the execution block.
Returned == pc = "done"

\* Mutant of GoOn: the pipeline goes on whatever the analysis returned.
GoOn_Always(analysis) == TRUE

\* `if analysis_a:' / `if analysis_text:': whether the pipeline goes on.
GoOn(analysis) == Truthy(analysis)

pipelineFrame ==
    <<strategy, latency, remote, analysis_mode, selection, api_key, work_a, work_b,
      synthesis_calls, synthesis_result, catalogVars>>

\* Mode 1: the value of the single analysis is shown, if any.
SingleStep ==
    /\ app_pc = "analysis" /\ analysis_mode = A_SINGLE
    /\ Returned
    /\ analyses' = Append(analyses, result)
    /\ page' = page \o ErrorsShown(errors)
                    \o (IF Truthy(result)
                        THEN <<Shown("header", "Analysis Result", 0, 0, NoLens)>>
                        ELSE << >>)
    /\ app_pc' = "finished"
    /\ UNCHANGED <<pipelineFrame, analysisLocals, analyze_calls>>

\* Modes 2 and 4: after the first analysis the second is started if the
\* first is true; after the second, synthesis is next if both are true;
\* otherwise the error is shown and the run ends.
TwoAnalysesStep(lens_2, work_2, subheader_2, subheader_3, error_text) ==
    /\ Returned
    /\ analyses' = Append(analyses, result)
    /\ IF Len(analyses) = 0 /\ GoOn(result)
       THEN /\ page' = page \o ErrorsShown(errors) \o <<subheader_2>>
            /\ BeginAnalysis(analyze_calls, lens_2, work_2)
            /\ UNCHANGED app_pc
       ELSE /\ IF Len(analyses) = 1 /\ GoOn(analyses[1]) /\ GoOn(result)
               THEN /\ page' = page \o ErrorsShown(errors) \o <<subheader_3>>
                    /\ app_pc' = "synthesis"
               ELSE /\ page' = page \o ErrorsShown(errors)
                                    \o <<Shown("error", error_text, 0, 0, NoLens)>>
                    /\ app_pc' = "finished"
            /\ UNCHANGED <<analysisLocals, analyze_calls>>
    /\ UNCHANGED pipelineFrame

\* Mode 2: Thesis, then Antithesis on the same work.
DialecticalStep ==
    /\ app_pc = "analysis" /\ analysis_mode = A_DIALECTICAL
    /\ TwoAnalysesStep(selection.items[2], work_a,
                       Shown("subheader", "Antithesis", 2, 3, selection.items[2]),
                       Shown("subheader", "Synthesis (Aufheben)", 3, 3, NoLens),
                       "Could not generate the initial analyses. Cannot proceed to synthesis.")

\* Mode 4: Work A, then Work B through the same lens.
ComparativeStep ==
    /\ app_pc = "analysis" /\ analysis_mode = A_COMPARATIVE
    /\ TwoAnalysesStep(selection.items[1], work_b,
                       Shown("subheader", "Analyzing Work B", 2, 3, NoLens),
                       Shown("subheader", "Comparative Synthesis", 3, 3, NoLens),
                       "Could not generate the initial analyses. Cannot proceed to comparison.")

\* Mode 3: one pass of the loop over selected_lenses; a false analysis
\* clears continue_execution, the last true one leads to synthesis.
SymposiumStep ==
    /\ app_pc = "analysis" /\ analysis_mode = A_SYMPOSIUM
    /\ Returned
    /\ analyses' = Append(analyses, result)
    /\ LET i == Len(analyses) + 1
           N == Len(selection.items)
       IN  IF GoOn(result)
           THEN IF i < N
                THEN /\ page' = page \o ErrorsShown(errors)
                                 \o <<Shown("subheader", "Analyzing", i + 1, N + 1,
                                            selection.items[i + 1])>>
                     /\ BeginAnalysis(analyze_calls, selection.items[i + 1], work_a)
                     /\ UNCHANGED app_pc
                ELSE /\ page' = page \o ErrorsShown(errors)
                                 \o <<Shown("subheader", "Symposium Synthesis", N + 1,
                                            N + 1, NoLens)>>
                     /\ app_pc' = "synthesis"
                     /\ UNCHANGED <<analysisLocals, analyze_calls>>
           ELSE /\ page' = page \o ErrorsShown(errors)
                            \o <<Shown("error", "Failed to generate analysis for. Halting execution.",
                                       0, 0, selection.items[i])>>
                /\ app_pc' = "finished"
                /\ UNCHANGED <<analysisLocals, analyze_calls>>
    /\ UNCHANGED pipelineFrame

\* Mutant of DictPut: the dict keeps its latest entry only.
DictPut_KeepLatest(d, k, v) == << <<k, v>> >>

\* dict[k] = v on a dict held as a sequence of <<key, value>> pairs.
DictPut(d, k, v) ==
    IF \E i \in DOMAIN d : d[i][1] = k
    THEN [i \in DOMAIN d |-> IF d[i][1] = k THEN <<k, v>> ELSE d[i]]
    ELSE Append(d, <<k, v>>)

RECURSIVE analyses_results(_, _)
\* Mode 3: the dict the loop has filled from the first n analyses.
analyses_results(lenses, n) ==
    IF n = 0 THEN << >>
    ELSE IF Truthy(analyses[n])
         THEN DictPut(analyses_results(lenses, n - 1), lenses[n], analyses[n][1])
         ELSE analyses_results(lenses, n - 1)

\* Mutant of SynthesisGenerator: a call that raised is made again.
SynthesisGenerator_Retry(generator, prompt, timeout, error_text, header) ==
    /\ app_pc = "synthesis"
    /\ Len(synthesis_calls) < 2
    /\ \/ /\ synthesis_calls' =
                Append(synthesis_calls, SynthesisCall(generator, prompt, timeout, TRUE, NoText))
          /\ synthesis_result' = NoText
          /\ page' = page
          /\ app_pc' = "synthesis"
       \/ /\ synthesis_calls' =
                Append(synthesis_calls,
                       SynthesisCall(generator, prompt, timeout, FALSE, Some(<<"a">>)))
          /\ synthesis_result' = Some(<<"a">>)
          /\ page' = Append(page, Shown("header", header, 0, 0, NoLens))
          /\ app_pc' = "finished"
    /\ UNCHANGED <<strategy, latency, remote, analysis_mode, selection, api_key,
                   work_a, work_b, analyses, analysisLocals, analyze_calls,
                   catalogVars>>

\* One synthesis generator: a single generate_content call on the prompt;
\* an exception shows the error and returns None, otherwise the text is
\* returned.  Back in the execution block a true text is shown.
SynthesisGenerator(generator, prompt, timeout, error_text, header) ==
    /\ app_pc = "synthesis"
    /\ \/ /\ synthesis_calls' =
                Append(synthesis_calls, SynthesisCall(generator, prompt, timeout, TRUE, NoText))
          /\ synthesis_result' = NoText
          /\ page' = Append(page, Shown("error", error_text, 0, 0, NoLens))
       \/ \E t \in PipelineTexts :
             /\ synthesis_calls' =
                   Append(synthesis_calls,
                          SynthesisCall(generator, prompt, timeout, FALSE, Some(t)))
             /\ synthesis_result' = Some(t)
             /\ page' = IF Truthy(Some(t))
                        THEN Append(page, Shown("header", header, 0, 0, NoLens))
                        ELSE page
    /\ app_pc' = "finished"
    /\ UNCHANGED <<strategy, latency, remote, analysis_mode, selection, api_key,
                   work_a, work_b, analyses, analysisLocals, analyze_calls,
                   catalogVars>>

\* generate_dialectical_synthesis, called from mode 2.
DialecticalSynthesis ==
    /\ analysis_mode = A_DIALECTICAL
    /\ SynthesisGenerator("dialectical",
                          DialecticalPrompt(strategy, selection.items[1], analyses[1][1],
                                            selection.items[2], analyses[2][1],
                                            get_display_title(work_a)),
                          600, "An error occurred during dialectical synthesis",
                          "Dialectical Dialogue Result")

\* generate_symposium_synthesis, called from mode 3.
SymposiumSynthesis ==
    /\ analysis_mode = A_SYMPOSIUM
    /\ SynthesisGenerator("symposium",
                          SymposiumPrompt(analyses_results(selection.items, Len(analyses)),
                                          get_display_title(work_a)),
                          900, "An error occurred during symposium synthesis",
                          "Symposium Dialogue Result")

\* generate_comparative_synthesis, called from mode 4.
ComparativeSynthesis ==
    /\ analysis_mode = A_COMPARATIVE
    /\ SynthesisGenerator("comparative",
                          ComparativePrompt(selection.items[1], analyses[1][1],
                                            get_display_title(work_a), analyses[2][1],
                                            get_display_title(work_b)),
                          600, "An error occurred during comparative synthesis",
                          "Comparative Synthesis Result")

\* The remote store in a pipeline run: the upload may report PROCESSING, a
\* get call reports it only while fewer than MaxPipelinePolls get calls
\* have been made.
StoreSettles == uploaded_file'.state = "PROCESSING" => nGet' < MaxPipelinePolls

\* genai.upload_file and genai.get_file against a store that settles.
SettlingUploadFile == UploadFile /\ StoreSettles
SettlingPollGet == PollGet /\ StoreSettles

\* The generation calls of generate_analysis in a pipeline run return
\* texts of PipelineTexts.
BriefResponse ==
    ~calls'[Len(calls')].raised => calls'[Len(calls')].response[1] \in PipelineTexts

\* The General and the Soldier answering with texts of that length.
BriefGeneral == General /\ BriefResponse
BriefSoldier == Soldier /\ BriefResponse

\* A session: script runs, each possibly executing one pipeline.
PipelineInit ==
    /\ strategy = "two_tier"
    /\ work_input = EmptyWork
    /\ latency = 0
    /\ pc = "idle"
    /\ clock = 0
    /\ start_time = 0
    /\ mime_type = ""
    /\ uploaded_file = None
    /\ gemini_file = None
    /\ remote = {}
    /\ reported = << >>
    /\ nSleep = 0
    /\ nGet = 0
    /\ calls = << >>
    /\ errors = << >>
    /\ soldier_prompt = << >>
    /\ result = NoText
    /\ AppInit
    /\ NoCatalog

PipelineNext ==
    \/ ScriptRun
    \/ RunEnds
    \/ PrepareInput
    \/ ResolveMime
    \/ SettlingUploadFile
    \/ PollCheck
    \/ PollSleep
    \/ SettlingPollGet
    \/ FinalState
    \/ UploadReturned
    \/ BriefGeneral
    \/ BriefSoldier
    \/ Finally
    \/ SingleStep
    \/ DialecticalStep
    \/ SymposiumStep
    \/ ComparativeStep
    \/ DialecticalSynthesis
    \/ SymposiumSynthesis
    \/ ComparativeSynthesis

PipelineSpec == PipelineInit /\ [][PipelineNext]_vars

\* ------------------------------------- a synthesis generator on its own
\* Lens names given to a synthesis generator: plain names and a composite
\* key of V5.
SynthLensNames == LensNames \cup {<<"Socio-Political", " ", "(", "Marxist", ")">>}
\* Analysis texts given to a synthesis generator: any text, of one or more
\* lines.
SynthTexts == SeqsUpTo(Chars \cup {NL}, MaxSynthTextLen)

\* A synthesis generator is called with arguments of the caller's choice:
\* two lens names and two analysis texts (dialectical, either revision),
\* one lens name and two texts (comparative), or three lens names with
\* their texts (symposium).
SynthesisInit ==
    /\ \E ta \in SynthTexts, tb \in SynthTexts, la \in SynthLensNames :
          \/ /\ analysis_mode = A_DIALECTICAL
             /\ strategy \in {"two_tier", "direct"}
             /\ \E lb \in SynthLensNames : selection = SelList(<<la, lb>>)
             /\ analyses = <<Some(ta), Some(tb)>>
          \/ /\ analysis_mode = A_COMPARATIVE
             /\ strategy = "two_tier"
             /\ selection = SelStr(la)
             /\ analyses = <<Some(ta), Some(tb)>>
          \/ /\ analysis_mode = A_SYMPOSIUM
             /\ strategy = "two_tier"
             /\ \E ls \in DistinctSeqs(LensNames) :
                   Len(ls) = Cardinality(LensNames) /\ selection = SelList(ls)
             /\ \E tc \in PipelineTexts : analyses = <<Some(ta), Some(tb), Some(tc)>>
    /\ \E t \in Titles :
          /\ work_a = [EmptyWork EXCEPT !.title = t]
          /\ work_b = work_a
    /\ api_key = "key"
    /\ app_pc = "synthesis"
    /\ analyze_calls = << >>
    /\ synthesis_calls = << >>
    /\ synthesis_result = NoText
    /\ page = << >>
    /\ work_input = EmptyWork
    /\ latency = 0
    /\ pc = "idle"
    /\ clock = 0
    /\ start_time = 0
    /\ mime_type = ""
    /\ uploaded_file = None
    /\ gemini_file = None
    /\ remote = {}
    /\ reported = << >>
    /\ nSleep = 0
    /\ nGet = 0
    /\ calls = << >>
    /\ errors = << >>
    /\ soldier_prompt = << >>
    /\ result = NoText
    /\ NoCatalog

SynthesisNext ==
    \/ DialecticalSynthesis
    \/ SymposiumSynthesis
    \/ ComparativeSynthesis

SynthesisSpec == SynthesisInit /\ [][SynthesisNext]_vars

\* ------------------------------------------------------ flatten_lenses
\* Names of the catalog are sequences of characters, so that the order
\* sorted() puts them in is computed and not assumed.
MaxCategories == 2
MaxLensList == 2

\* The printable ASCII characters, in code point order from 32 (space); the
\* backtick (96) stands by its name.
Ascii ==
    <<" ", "!", "\"", "#", "$", "%", "&", "'", "(", ")", "*", "+", ",", "-", ".", "/",
      "0", "1", "2", "3", "4", "5", "6", "7", "8", "9", ":", ";", "<", "=", ">", "?",
      "@", "A", "B", "C", "D", "E", "F", "G", "H", "I", "J", "K", "L", "M", "N", "O",
      "P", "Q", "R", "S", "T", "U", "V", "W", "X", "Y", "Z", "[", "\\", "]", "^", "_",
      "backtick", "a", "b", "c", "d", "e", "f", "g", "h", "i", "j", "k", "l", "m", "n", "o",
      "p", "q", "r", "s", "t", "u", "v", "w", "x", "y", "z", "{", "|", "}", "~">>

\* ord(): the code point of a character.
CodePoint(c) == 31 + (CHOOSE i \in DOMAIN Ascii : Ascii[i] = c)

\* str.__lt__: the order sorted() compares two names by.
StrLess(a, b) ==
    \E i \in 1..Len(b) :
        /\ \A j \in 1..(i - 1) : j <= Len(a) /\ a[j] = b[j]
        /\ \/ i = Len(a) + 1
           \/ i <= Len(a) /\ CodePoint(a[i]) < CodePoint(b[i])

\* sorted(list): ascending, equal elements all kept in the order they had.
\* Every element goes to the place given by the number of elements that
\* come before it.
Sorted(s) ==
    LET place == [i \in DOMAIN s |->
                    1 + Cardinality({j \in DOMAIN s :
                                        \/ StrLess(s[j], s[i])
                                        \/ s[j] = s[i] /\ j < i})]
    IN  [k \in DOMAIN s |-> s[CHOOSE i \in DOMAIN s : place[i] = k]]

\* set(list): the elements of a list.
ToSet(s) == {s[i] : i \in DOMAIN s}

\* list(set): the elements in some order.
RECURSIVE ToList(_)
ToList(S) ==
    IF S = {} THEN << >>
    ELSE LET x == CHOOSE y \in S : TRUE IN <<x>> \o ToList(S \ {x})

\* v7.2: flat_lenses after the loop; the catalog is a sequence of
\* <<category, lens_list>> items.
RECURSIVE Extended(_)
Extended(lenses_hierarchy) ==
    IF lenses_hierarchy = << >> THEN << >>
    ELSE Head(lenses_hierarchy)[2] \o Extended(Tail(lenses_hierarchy))

\* Mutant of flatten_lenses: the list is sorted as it is, without set().
flatten_lenses_NoSet(lenses_hierarchy) == Sorted(Extended(lenses_hierarchy))

\* v7.2 flatten_lenses.
flatten_lenses(lenses_hierarchy) ==
    Sorted(ToList(ToSet(Extended(lenses_hierarchy))))

\* V5: f"{main_lens} ({sub_lens})".
CompositeName(main_lens, sub_lens) ==
    main_lens \o <<" ", "(">> \o sub_lens \o <<")">>

\* V5: the inner loop over details["sub_lenses"].items(); the prompts are
\* not told apart.
RECURSIVE PutSubLenses(_, _, _)
PutSubLenses(flat_lenses, main_lens, sub_lenses) ==
    IF sub_lenses = << >> THEN flat_lenses
    ELSE PutSubLenses(DictPut(flat_lenses,
                              CompositeName(main_lens, Head(sub_lenses)),
                              "prompt"),
                      main_lens, Tail(sub_lenses))

\* V5 flatten_lenses, from the dictionary built so far; the catalog is a
\* sequence of <<main_lens, details>> items, details telling which keys it
\* has and the names under "sub_lenses".
RECURSIVE FlattenInto(_, _)
FlattenInto(flat_lenses, lenses) ==
    IF lenses = << >> THEN flat_lenses
    ELSE LET main_lens == Head(lenses)[1]
             details == Head(lenses)[2]
         IN  FlattenInto(
                 IF details.has_sub_lenses
                 THEN PutSubLenses(flat_lenses, main_lens, details.sub_lenses)
                 ELSE IF details.has_prompt
                 THEN DictPut(flat_lenses, main_lens, "prompt")
                 ELSE flat_lenses,
                 Tail(lenses))

flatten_lenses_V5(lenses) == FlattenInto(<< >>, lenses)

\* list(FLATTENED_LENSES.keys()).
Keys(d) == [i \in DOMAIN d |-> d[i][1]]

\* Module level: SORTED_LENS_NAMES is computed from LENSES_HIERARCHY.
FlattenLenses ==
    /\ SORTED_LENS_NAMES = << >>
    /\ SORTED_LENS_NAMES' =
          IF strategy = "two_tier"
          THEN flatten_lenses(LENSES_HIERARCHY)
          ELSE Sorted(Keys(flatten_lenses_V5(LENSES_HIERARCHY)))
    /\ UNCHANGED <<LENSES_HIERARCHY, functionalVars, personaVars, ready, strategy,
                   work_input, latency, pc, pollVars,
                   uploadVars, gemini_file, remote, calls, errors, genVars,
                   analysis_mode, selection, api_key, work_a, work_b, app_pc,
                   analyze_calls, analyses, synthesis_calls, synthesis_result,
                   page>>

\* Names the bounded catalogs are written with.
CategoryNames == {<<"A">>, <<"A", "B">>, <<"A", " ", "(", "B", ")">>}
SubLensNames == {<<"B">>, <<"A", "B">>}

NonEmptyUpTo(S, n) == {s \in S : 1 <= Len(s) /\ Len(s) <= n}

\* Well-formed v7.2 catalogs: categories with distinct names, each with a
\* non-empty list of lens names (a name may stand in several places).
CatalogsV72 ==
    UNION {
        {[i \in DOMAIN cs |-> <<cs[i], ls[i]>>] :
            ls \in [DOMAIN cs -> NonEmptyUpTo(SeqsUpTo(SubLensNames, MaxLensList),
                                              MaxLensList)]}
        : cs \in NonEmptyUpTo(DistinctSeqs(CategoryNames), MaxCategories)}

\* Well-formed V5 details: either a prompt, or a non-empty mapping of
\* sub-lens names to prompts.
DetailsV5 ==
    {[has_sub_lenses |-> FALSE, sub_lenses |-> << >>, has_prompt |-> TRUE]}
    \cup {[has_sub_lenses |-> TRUE, sub_lenses |-> ss, has_prompt |-> FALSE] :
            ss \in NonEmptyUpTo(DistinctSeqs(SubLensNames), MaxLensList)}

CatalogsV5 ==
    UNION {
        {[i \in DOMAIN cs |-> <<cs[i], ds[i]>>] : ds \in [DOMAIN cs -> DetailsV5]}
        : cs \in NonEmptyUpTo(DistinctSeqs(CategoryNames), MaxCategories)}

FlattenInit ==
    /\ \/ strategy = "two_tier" /\ LENSES_HIERARCHY \in CatalogsV72
       \/ strategy = "direct" /\ LENSES_HIERARCHY \in CatalogsV5
    /\ SORTED_LENS_NAMES = << >>
    /\ NoFunctional
    /\ NoPersona
    /\ ready = << >>
    /\ AppInit
    /\ work_input = EmptyWork
    /\ latency = 0
    /\ pc = "idle"
    /\ clock = 0
    /\ start_time = 0
    /\ mime_type = ""
    /\ uploaded_file = None
    /\ gemini_file = None
    /\ remote = {}
    /\ reported = << >>
    /\ nSleep = 0
    /\ nGet = 0
    /\ calls = << >>
    /\ errors = << >>
    /\ soldier_prompt = << >>
    /\ result = NoText

FlattenNext == FlattenLenses

FlattenSpec == FlattenInit /\ [][FlattenNext]_vars

\* ------------------------------------------- create_functional_mapping
\* Mutant of SortedLists: the lists are left as they were written.
SortedLists_AsWritten(m) == m

\* "Ensure internal lists are sorted": every list of the mapping, sorted.
SortedLists(m) == [i \in DOMAIN m |-> <<m[i][1], Sorted(m[i][2])>>]

\* The lenses the validation check finds missing from the mapping.
Missing(lenses_hierarchy, m) ==
    ToSet(flatten_lenses(lenses_hierarchy)) \ ToSet(flatten_lenses(m))

\* Mutant of LogWarning: the warning is not logged.
LogWarning_Silent(log, missing) == log

\* logging.warning of the validation check: one call, naming the whole set.
LogWarning(log, missing) == Append(log, missing)

\* Module level: LENSES_FUNCTIONAL = create_functional_mapping(LENSES_HIERARCHY).
CreateFunctionalMapping ==
    /\ LENSES_FUNCTIONAL = << >>
    /\ LET missing == Missing(LENSES_HIERARCHY, mapping)
       IN  logged' = IF missing # {} THEN LogWarning(logged, missing) ELSE logged
    /\ LENSES_FUNCTIONAL' = SortedLists(mapping)
    /\ UNCHANGED <<LENSES_HIERARCHY, SORTED_LENS_NAMES, mapping, personaVars, ready,
                   strategy, work_input, latency, pc, pollVars, uploadVars, gemini_file,
                   remote, calls, errors, genVars, analysis_mode, selection,
                   api_key, work_a, work_b, app_pc, analyze_calls, analyses,
                   synthesis_calls, synthesis_result, page>>

\* The three tiers of the mapping literal.
TierNames ==
    <<"Contextual (What, Who, Where, When)", "Mechanical (How)", "Interpretive (Why)">>

\* v7.2 LENSES_HIERARCHY as shipped: <<category, lens_list>> items, the lens
\* names written character by character.
ShippedHierarchy ==
    <<
        <<"Structural & Formalist", <<
            <<"F","o","r","m","a","l","i","s","t">>,
            <<"S","t","r","u","c","t","u","r","a","l","i","s","m">>,
            <<"N","a","r","r","a","t","o","l","o","g","y">>,
            <<"S","e","m","i","o","t","i","c","s">>,
            <<"C","o","m","p","u","t","a","t","i","o","n","a","l"," ","A","n","a","l","y","s","i","s","/","D","i","g","i","t","a","l"," ","H","u","m","a","n","i","t","i","e","s">>>> >>,
        <<"Psychological", <<
            <<"J","u","n","g","i","a","n">>,
            <<"F","r","e","u","d","i","a","n">>,
            <<"E","v","o","l","u","t","i","o","n","a","r","y"," ","P","s","y","c","h","o","l","o","g","y">>,
            <<"B","e","h","a","v","i","o","r","i","s","m">>,
            <<"L","a","c","a","n","i","a","n">>>> >>,
        <<"Philosophical", <<
            <<"E","x","i","s","t","e","n","t","i","a","l","i","s","t">>,
            <<"T","a","o","i","s","t">>,
            <<"P","h","e","n","o","m","e","n","o","l","o","g","i","c","a","l">>,
            <<"S","t","o","i","c","i","s","m">>,
            <<"P","l","a","t","o","n","i","s","m">>,
            <<"N","i","e","t","z","s","c","h","e","a","n">>,
            <<"A","b","s","u","r","d","i","s","m">>>> >>,
        <<"Socio-Political", <<
            <<"M","a","r","x","i","s","t">>,
            <<"F","e","m","i","n","i","s","t">>,
            <<"P","o","s","t","-","C","o","l","o","n","i","a","l">>,
            <<"Q","u","e","e","r"," ","T","h","e","o","r","y">>>> >>,
        <<"Art History & Aesthetics", <<
            <<"A","e","s","t","h","e","t","i","c","i","s","m">>,
            <<"C","u","b","i","s","m">>,
            <<"S","u","r","r","e","a","l","i","s","m">>,
            <<"I","c","o","n","o","g","r","a","p","h","y","/","I","c","o","n","o","l","o","g","y">>,
            <<"F","o","r","m","a","l","i","s","t"," ","A","r","t"," ","C","r","i","t","i","c","i","s","m">>,
            <<"I","m","p","r","e","s","s","i","o","n","i","s","m">>>> >>,
        <<"Communication & Media Theory", <<
            <<"R","h","e","t","o","r","i","c","a","l"," ","A","n","a","l","y","s","i","s">>,
            <<"M","e","d","i","a"," ","E","c","o","l","o","g","y"," ","(","M","c","L","u","h","a","n",")">>,
            <<"A","g","e","n","d","a","-","S","e","t","t","i","n","g"," ","T","h","e","o","r","y">>,
            <<"U","s","e","s"," ","a","n","d"," ","G","r","a","t","i","f","i","c","a","t","i","o","n","s"," ","T","h","e","o","r","y">>>> >>,
        <<"Ethical Frameworks", <<
            <<"U","t","i","l","i","t","a","r","i","a","n","i","s","m">>,
            <<"V","i","r","t","u","e"," ","E","t","h","i","c","s">>,
            <<"D","e","o","n","t","o","l","o","g","y"," ","(","K","a","n","t","i","a","n",")">>,
            <<"B","i","o","e","t","h","i","c","s">>>> >>,
        <<"Scientific & STEM Perspectives", <<
            <<"C","o","g","n","i","t","i","v","e"," ","S","c","i","e","n","c","e">>,
            <<"S","y","s","t","e","m","s"," ","T","h","e","o","r","y"," ","(","C","o","m","p","l","e","x","i","t","y",")">>,
            <<"E","c","o","c","r","i","t","i","c","i","s","m">>,
            <<"A","s","t","r","o","p","h","y","s","i","c","s","/","C","o","s","m","o","l","o","g","y">>,
            <<"M","a","t","e","r","i","a","l","s"," ","S","c","i","e","n","c","e">>,
            <<"E","p","i","d","e","m","i","o","l","o","g","y">>>> >>,
        <<"Economics & Systems", <<
            <<"G","a","m","e"," ","T","h","e","o","r","y">>,
            <<"B","e","h","a","v","i","o","r","a","l"," ","E","c","o","n","o","m","i","c","s">>,
            <<"S","u","p","p","l","y"," ","C","h","a","i","n"," ","A","n","a","l","y","s","i","s">>>> >>,
        <<"Law & Governance", <<
            <<"L","e","g","a","l"," ","P","o","s","i","t","i","v","i","s","m">>,
            <<"C","r","i","t","i","c","a","l"," ","L","e","g","a","l"," ","S","t","u","d","i","e","s">>>> >>,
        <<"Spiritual & Esoteric", <<
            <<"A","n","i","m","i","s","m">>,
            <<"B","h","a","k","t","i"," ","Y","o","g","a"," ","(","H","i","n","d","u"," ","D","e","v","o","t","i","o","n",")">>,
            <<"B","u","d","d","h","i","s","t"," ","P","h","i","l","o","s","o","p","h","y"," ","(","G","e","n","e","r","a","l",")">>,
            <<"C","h","r","i","s","t","i","a","n"," ","M","y","s","t","i","c","i","s","m">>,
            <<"C","h","r","i","s","t","i","a","n"," ","T","h","e","o","l","o","g","y">>,
            <<"G","n","o","s","t","i","c","i","s","m">>,
            <<"H","e","r","m","e","t","i","c","i","s","m">>,
            <<"K","a","b","b","a","l","a","h"," ","(","J","e","w","i","s","h"," ","M","y","s","t","i","c","i","s","m",")">>,
            <<"M","y","s","t","i","c","i","s","m"," ","(","G","e","n","e","r","a","l",")">>,
            <<"Q","u","r","a","n","i","c"," ","S","t","u","d","i","e","s"," ","(","I","s","l","a","m",")">>,
            <<"R","a","b","b","i","n","i","c"," ","T","h","o","u","g","h","t"," ","(","J","u","d","a","i","s","m",")">>,
            <<"S","h","i","n","t","o">>,
            <<"S","u","f","i","s","m"," ","(","I","s","l","a","m","i","c"," ","M","y","s","t","i","c","i","s","m",")">>,
            <<"T","i","b","e","t","a","n"," ","B","u","d","d","h","i","s","m">>,
            <<"V","e","d","a","n","t","a"," ","(","H","i","n","d","u"," ","P","h","i","l","o","s","o","p","h","y",")">>,
            <<"W","e","s","t","e","r","n"," ","E","s","o","t","e","r","i","c","i","s","m">>,
            <<"Z","e","n"," ","B","u","d","d","h","i","s","m">>>> >>,
        <<"Historical & Contextual", <<
            <<"B","i","o","g","r","a","p","h","i","c","a","l">>,
            <<"H","i","s","t","o","r","i","c","a","l"," ","C","o","n","t","e","x","t">>,
            <<"R","e","a","d","e","r","-","R","e","s","p","o","n","s","e">>>> >> >>

\* v7.2 create_functional_mapping: the mapping literal.
ShippedMapping ==
    <<
        <<"Contextual (What, Who, Where, When)", <<
            <<"B","i","o","g","r","a","p","h","i","c","a","l">>,
            <<"H","i","s","t","o","r","i","c","a","l"," ","C","o","n","t","e","x","t">>,
            <<"R","e","a","d","e","r","-","R","e","s","p","o","n","s","e">>,
            <<"E","p","i","d","e","m","i","o","l","o","g","y">>,
            <<"S","u","p","p","l","y"," ","C","h","a","i","n"," ","A","n","a","l","y","s","i","s">>,
            <<"A","s","t","r","o","p","h","y","s","i","c","s","/","C","o","s","m","o","l","o","g","y">>,
            <<"Q","u","r","a","n","i","c"," ","S","t","u","d","i","e","s"," ","(","I","s","l","a","m",")">>,
            <<"R","a","b","b","i","n","i","c"," ","T","h","o","u","g","h","t"," ","(","J","u","d","a","i","s","m",")">>,
            <<"I","c","o","n","o","g","r","a","p","h","y","/","I","c","o","n","o","l","o","g","y">>,
            <<"A","g","e","n","d","a","-","S","e","t","t","i","n","g"," ","T","h","e","o","r","y">>>> >>,
        <<"Mechanical (How)", <<
            <<"F","o","r","m","a","l","i","s","t">>,
            <<"S","t","r","u","c","t","u","r","a","l","i","s","m">>,
            <<"N","a","r","r","a","t","o","l","o","g","y">>,
            <<"S","e","m","i","o","t","i","c","s">>,
            <<"S","y","s","t","e","m","s"," ","T","h","e","o","r","y"," ","(","C","o","m","p","l","e","x","i","t","y",")">>,
            <<"C","o","g","n","i","t","i","v","e"," ","S","c","i","e","n","c","e">>,
            <<"B","e","h","a","v","i","o","r","i","s","m">>,
            <<"G","a","m","e"," ","T","h","e","o","r","y">>,
            <<"B","e","h","a","v","i","o","r","a","l"," ","E","c","o","n","o","m","i","c","s">>,
            <<"C","o","m","p","u","t","a","t","i","o","n","a","l"," ","A","n","a","l","y","s","i","s","/","D","i","g","i","t","a","l"," ","H","u","m","a","n","i","t","i","e","s">>,
            <<"M","a","t","e","r","i","a","l","s"," ","S","c","i","e","n","c","e">>,
            <<"L","e","g","a","l"," ","P","o","s","i","t","i","v","i","s","m">>,
            <<"C","u","b","i","s","m">>,
            <<"F","o","r","m","a","l","i","s","t"," ","A","r","t"," ","C","r","i","t","i","c","i","s","m">>,
            <<"I","m","p","r","e","s","s","i","o","n","i","s","m">>,
            <<"R","h","e","t","o","r","i","c","a","l"," ","A","n","a","l","y","s","i","s">>>> >>,
        <<"Interpretive (Why)", <<
            <<"J","u","n","g","i","a","n">>,
            <<"F","r","e","u","d","i","a","n">>,
            <<"L","a","c","a","n","i","a","n">>,
            <<"E","v","o","l","u","t","i","o","n","a","r","y"," ","P","s","y","c","h","o","l","o","g","y">>,
            <<"E","x","i","s","t","e","n","t","i","a","l","i","s","t">>,
            <<"T","a","o","i","s","t">>,
            <<"P","h","e","n","o","m","e","n","o","l","o","g","i","c","a","l">>,
            <<"S","t","o","i","c","i","s","m">>,
            <<"P","l","a","t","o","n","i","s","m">>,
            <<"N","i","e","t","z","s","c","h","e","a","n">>,
            <<"A","b","s","u","r","d","i","s","m">>,
            <<"M","a","r","x","i","s","t">>,
            <<"F","e","m","i","n","i","s","t">>,
            <<"P","o","s","t","-","C","o","l","o","n","i","a","l">>,
            <<"Q","u","e","e","r"," ","T","h","e","o","r","y">>,
            <<"U","t","i","l","i","t","a","r","i","a","n","i","s","m">>,
            <<"V","i","r","t","u","e"," ","E","t","h","i","c","s">>,
            <<"D","e","o","n","t","o","l","o","g","y"," ","(","K","a","n","t","i","a","n",")">>,
            <<"B","i","o","e","t","h","i","c","s">>,
            <<"E","c","o","c","r","i","t","i","c","i","s","m">>,
            <<"C","r","i","t","i","c","a","l"," ","L","e","g","a","l"," ","S","t","u","d","i","e","s">>,
            <<"A","n","i","m","i","s","m">>,
            <<"B","h","a","k","t","i"," ","Y","o","g","a"," ","(","H","i","n","d","u"," ","D","e","v","o","t","i","o","n",")">>,
            <<"B","u","d","d","h","i","s","t"," ","P","h","i","l","o","s","o","p","h","y"," ","(","G","e","n","e","r","a","l",")">>,
            <<"C","h","r","i","s","t","i","a","n"," ","M","y","s","t","i","c","i","s","m">>,
            <<"C","h","r","i","s","t","i","a","n"," ","T","h","e","o","l","o","g","y">>,
            <<"G","n","o","s","t","i","c","i","s","m">>,
            <<"H","e","r","m","e","t","i","c","i","s","m">>,
            <<"K","a","b","b","a","l","a","h"," ","(","J","e","w","i","s","h"," ","M","y","s","t","i","c","i","s","m",")">>,
            <<"M","y","s","t","i","c","i","s","m"," ","(","G","e","n","e","r","a","l",")">>,
            <<"S","h","i","n","t","o">>,
            <<"S","u","f","i","s","m"," ","(","I","s","l","a","m","i","c"," ","M","y","s","t","i","c","i","s","m",")">>,
            <<"T","i","b","e","t","a","n"," ","B","u","d","d","h","i","s","m">>,
            <<"V","e","d","a","n","t","a"," ","(","H","i","n","d","u"," ","P","h","i","l","o","s","o","p","h","y",")">>,
            <<"W","e","s","t","e","r","n"," ","E","s","o","t","e","r","i","c","i","s","m">>,
            <<"Z","e","n"," ","B","u","d","d","h","i","s","m">>,
            <<"A","e","s","t","h","e","t","i","c","i","s","m">>,
            <<"S","u","r","r","e","a","l","i","s","m">>,
            <<"M","e","d","i","a"," ","E","c","o","l","o","g","y"," ","(","M","c","L","u","h","a","n",")">>,
            <<"U","s","e","s"," ","a","n","d"," ","G","r","a","t","i","f","i","c","a","t","i","o","n","s"," ","T","h","e","o","r","y">>>> >> >>

\* Bounded mapping literals: the three tiers, each with a list of lens names.
BoundedMappings ==
    {[i \in DOMAIN TierNames |-> <<TierNames[i], ls[i]>>] :
        ls \in [DOMAIN TierNames -> SeqsUpTo(SubLensNames, MaxLensList)]}

\* Bounded catalogs of one category: create_functional_mapping reads the
\* catalog through flatten_lenses only.
OneCategoryCatalogs == {c \in CatalogsV72 : Len(c) = 1}

FunctionalInit ==
    /\ strategy = "two_tier"
    /\ \/ LENSES_HIERARCHY \in OneCategoryCatalogs /\ mapping \in BoundedMappings
       \/ LENSES_HIERARCHY = ShippedHierarchy /\ mapping = ShippedMapping
    /\ SORTED_LENS_NAMES = << >>
    /\ LENSES_FUNCTIONAL = << >>
    /\ logged = << >>
    /\ NoPersona
    /\ ready = << >>
    /\ AppInit
    /\ work_input = EmptyWork
    /\ latency = 0
    /\ pc = "idle"
    /\ clock = 0
    /\ start_time = 0
    /\ mime_type = ""
    /\ uploaded_file = None
    /\ gemini_file = None
    /\ remote = {}
    /\ reported = << >>
    /\ nSleep = 0
    /\ nGet = 0
    /\ calls = << >>
    /\ errors = << >>
    /\ soldier_prompt = << >>
    /\ result = NoText

FunctionalNext == CreateFunctionalMapping

FunctionalSpec == FunctionalInit /\ [][FunctionalNext]_vars

\* ------------------------------------- create_persona_name on its own
MaxPersonaCalls == 2

\* The text of a lens key: the category name, or f"{main_lens} ({sub_lens})".
KeyText(key) ==
    IF key.sub_lens = << >> THEN key.main_lens
    ELSE CompositeName(key.main_lens, key.sub_lens)

\* Category and lens terms the keys are written with: the terms the rules
\* of both revisions name, terms with "Theory" after a space and at the
\* start, and a term no rule names.
PersonaTerms ==
    {<<"Structural & Formalist">>, <<"Historical & Biographical">>,
     <<"Comparative">>, <<"General">>, <<"Jungian">>, <<"Freudian">>,
     <<"Evolutionary Psychology">>, <<"Behaviorism">>, <<"Marxist">>,
     <<"Feminist">>, <<"Existentialist">>, <<"Taoist">>, <<"Phenomenological">>,
     <<"Stoicism">>, <<"Platonism">>, <<"Utilitarian", "ism">>, <<"Virtue Ethics">>,
     <<"Cognitive Science">>, <<"Systems", " Theory">>, <<"Ecocriticism">>,
     <<"Buddhist">>, <<"Western Esotericism">>, <<"Queer", " Theory">>,
     <<"Post-Colonial">>, <<"Theory", " of Mind">>, <<"Astrology">>}

PersonaCategories == {<<"Socio-Political">>, <<"Psychological">>}

\* Keys of a flattened catalog: plain category keys and composite keys.
LensKeys ==
    {[main_lens |-> t, sub_lens |-> << >>] : t \in PersonaTerms}
    \cup {[main_lens |-> c, sub_lens |-> t] : c \in PersonaCategories, t \in PersonaTerms}

\* One call of create_persona_name of a revision with the lens key.
NamePersona(rev) ==
    /\ Len(persona_titles) < MaxPersonaCalls
    /\ persona_titles' =
          Append(persona_titles,
                 <<rev, IF rev = "V5" THEN create_persona_name(KeyText(lens_key))
                        ELSE create_persona_name_V3(KeyText(lens_key))>>)
    /\ UNCHANGED <<lens_key, LENSES_HIERARCHY, SORTED_LENS_NAMES, functionalVars, ready,
                   strategy, work_input, latency, pc, pollVars, uploadVars,
                   gemini_file, remote, calls, errors, genVars, analysis_mode,
                   selection, api_key, work_a, work_b, app_pc, analyze_calls,
                   analyses, synthesis_calls, synthesis_result, page>>

NamePersonaV5 == NamePersona("V5")

NamePersonaV3 == NamePersona("V3")

PersonaInit ==
    /\ lens_key \in LensKeys
    /\ persona_titles = << >>
    /\ strategy = "direct"
    /\ LENSES_HIERARCHY = << >>
    /\ SORTED_LENS_NAMES = << >>
    /\ NoFunctional
    /\ ready = << >>
    /\ AppInit
    /\ work_input = EmptyWork
    /\ latency = 0
    /\ pc = "idle"
    /\ clock = 0
    /\ start_time = 0
    /\ mime_type = ""
    /\ uploaded_file = None
    /\ gemini_file = None
    /\ remote = {}
    /\ reported = << >>
    /\ nSleep = 0
    /\ nGet = 0
    /\ calls = << >>
    /\ errors = << >>
    /\ soldier_prompt = << >>
    /\ result = NoText

PersonaNext == NamePersonaV5 \/ NamePersonaV3

PersonaSpec == PersonaInit /\ [][PersonaNext]_vars

\* --------------------------------------------- a WorkInput on its own
\* WorkInput objects as the constructor can make them: every title,
\* modality, text (the empty sequence is None or "") and file object.
ConstructedWorks ==
    [title : Titles, modality : MODALITIES, data : Texts,
     uploaded_file_obj : UploadedFiles \cup {NoUpload}]

\* handle_input_ui: the widgets of a run write into the WorkInput; a field
\* whose widget is not shown or is empty keeps what it held.
HandleInputUI ==
    /\ ready = << >>
    /\ \E title \in Titles, modality \in MODALITIES, work_text \in Texts,
          file \in UploadedFiles \cup {NoUpload}, preview_raised \in BOOLEAN :
          work_input' =
              [title |-> title,
               modality |-> modality,
               data |-> IF modality = M_TEXT /\ work_text # << >> THEN work_text
                        ELSE work_input.data,
               uploaded_file_obj |->
                   IF modality = M_TEXT \/ ~file.present
                   THEN work_input.uploaded_file_obj
                   ELSE IF modality = M_IMAGE /\ preview_raised THEN NoUpload
                   ELSE file]
    /\ UNCHANGED <<ready, LENSES_HIERARCHY, SORTED_LENS_NAMES, functionalVars,
                   personaVars, strategy, latency, pc, pollVars, uploadVars,
                   gemini_file, remote, calls, errors, genVars, analysis_mode,
                   selection, api_key, work_a, work_b, app_pc, analyze_calls,
                   analyses, synthesis_calls, synthesis_result, page>>

\* work_input.is_ready() is called.
IsReady ==
    /\ ready = << >>
    /\ ready' = <<is_ready(work_input)>>
    /\ UNCHANGED <<work_input, LENSES_HIERARCHY, SORTED_LENS_NAMES, functionalVars,
                   personaVars, strategy, latency, pc, pollVars, uploadVars,
                   gemini_file, remote, calls, errors, genVars, analysis_mode,
                   selection, api_key, work_a, work_b, app_pc, analyze_calls,
                   analyses, synthesis_calls, synthesis_result, page>>

WorkInit ==
    /\ work_input \in ConstructedWorks
    /\ ready = << >>
    /\ strategy = "two_tier"
    /\ LENSES_HIERARCHY = << >>
    /\ SORTED_LENS_NAMES = << >>
    /\ NoFunctional
    /\ NoPersona
    /\ AppInit
    /\ latency = 0
    /\ pc = "idle"
    /\ clock = 0
    /\ start_time = 0
    /\ mime_type = ""
    /\ uploaded_file = None
    /\ gemini_file = None
    /\ remote = {}
    /\ reported = << >>
    /\ nSleep = 0
    /\ nGet = 0
    /\ calls = << >>
    /\ errors = << >>
    /\ soldier_prompt = << >>
    /\ result = NoText

WorkNext == HandleInputUI \/ IsReady

WorkSpec == WorkInit /\ [][WorkNext]_vars

TypeOK ==
    /\ strategy \in {"two_tier", "direct"}
    /\ work_input \in WorkInputs
    /\ latency \in 0..MaxLatency
    /\ pc \in {"idle", "start", "upload_to_gemini", "upload_file", "poll", "sleep", "get_file",
               "final_state", "upload_returned", "general", "soldier", "generate",
               "finally", "done"}
    /\ clock \in Nat /\ start_time \in Nat /\ nSleep \in Nat /\ nGet \in Nat
    /\ uploaded_file \in {None} \cup {File(RemoteName, s) : s \in FileStates}
    /\ gemini_file \in {None} \cup {File(RemoteName, s) : s \in FileStates}
    /\ remote \subseteq {RemoteName}
    /\ result \in {NoText} \cup {Some(t) : t \in Texts}
    /\ analysis_mode \in ANALYSIS_MODES
    /\ selection \in {SelNone} \cup {SelStr(l) : l \in LensNames}
                       \cup {SelList(ls) : ls \in DistinctSeqs(LensNames)}
    /\ api_key \in ApiKeys
    /\ app_pc \in {"idle", "analysis", "synthesis", "finished"}
    /\ Len(analyze_calls) <= Cardinality(LensNames)
    /\ Len(analyses) <= Len(analyze_calls)


\* ------------------------------------------------ reading the history
IsMedia == work_input.modality \in {M_IMAGE, M_AUDIO}
Last(s) == s[Len(s)]
CallsWhere(P(_)) == {i \in DOMAIN calls : P(calls[i])}
IsUpload(c) == c.op = "upload_file"
IsGenerate(c) == c.op = "generate_content"
IsDelete(c) == c.op = "delete_file"
\* The remote upload call created a remote file.
RemoteFileCreated == \E i \in DOMAIN calls : IsUpload(calls[i]) /\ ~calls[i].raised
\* upload_to_gemini has returned to generate_analysis.
UploadOver ==
    pc \in {"upload_returned", "general", "soldier", "generate", "finally", "done"}
       /\ IsMedia
DeletesOf(n) == {i \in DOMAIN calls : IsDelete(calls[i]) /\ calls[i].name = n}

\* ---------------------------------------------------------------- C1
\* C1: when upload returned an ACTIVE handle for a media work, then once
\* generate_analysis has returned (after both generation calls succeeded,
\* after the General failed, or after the Soldier failed) delete_file has
\* been invoked exactly once, on that handle; and it is not invoked before
\* the exit.
C1_DeleteExactlyOnce ==
    (IsMedia /\ gemini_file # None /\ gemini_file.state = "ACTIVE") =>
        /\ pc = "done" =>
              /\ Cardinality(DeletesOf(gemini_file.name)) = 1
              /\ Cardinality(CallsWhere(IsDelete)) = 1
        /\ pc # "done" => CallsWhere(IsDelete) = {}

\* C1 witness: a two-tier attempt on a media work, polled at least once,
\* whose Soldier call failed, has returned.
C1_Witness ==
    /\ pc = "done" /\ IsMedia /\ gemini_file # None /\ nGet >= 1
    /\ \E i \in DOMAIN calls :
          IsGenerate(calls[i]) /\ calls[i].phase = "soldier" /\ calls[i].raised
    /\ result = NoText

\* ---------------------------------------------------------------- C2
\* C2: whenever the remote upload call created a remote file and upload then
\* failed (FAILED, unexpected state, timeout, exception while polling),
\* delete_file has been invoked on that file by the time the attempt ends.
C2_NoLeakOnUploadFailure ==
    (pc = "done" /\ RemoteFileCreated /\ gemini_file = None) =>
        DeletesOf(RemoteName) # {}

\* ---------------------------------------------------------------- C3
\* C3: the store's reports are PROCESSING up to the last one (no get_file is
\* issued once a report is not PROCESSING); every get_file is preceded by
\* its own sleep; and when the store reported PROCESSING k times and then
\* ACTIVE, upload returns the ACTIVE handle after exactly k get_file calls
\* and k sleeps.
C3_PollingStateMachine ==
    /\ \A i \in 1..(Len(reported) - 1) : reported[i] = "PROCESSING"
    /\ nSleep = nGet + (IF pc = "get_file" THEN 1 ELSE 0)
    /\ clock - start_time = nSleep * POLL_INTERVAL + nGet * latency
    /\ (UploadOver /\ reported # << >> /\ Last(reported) = "ACTIVE") =>
          /\ gemini_file = File(RemoteName, "ACTIVE")
          /\ nGet = Len(reported) - 1
          /\ nSleep = nGet

\* C3 witness: PROCESSING, PROCESSING, then ACTIVE on the 2nd get_file:
\* upload has returned the ACTIVE handle after exactly 2 polls.
C3_Witness ==
    /\ pc = "upload_returned"
    /\ reported = <<"PROCESSING", "PROCESSING", "ACTIVE">>
    /\ nGet = 2
    /\ gemini_file = File(RemoteName, "ACTIVE")

\* ---------------------------------------------------------------- C4
\* The remote file exists, every report so far is PROCESSING and no remote
\* call has raised.
NeverLeftProcessing ==
    /\ RemoteFileCreated
    /\ \A i \in DOMAIN reported : reported[i] = "PROCESSING"
    /\ \A i \in DOMAIN errors : errors[i] # "UploadException"

\* What upload_to_gemini does against a store that never leaves PROCESSING.
C4_StuckStoreBound ==
    NeverLeftProcessing =>
        /\ nGet <= TIMEOUT \div (POLL_INTERVAL + latency) + 1
        /\ latency = 0 => nGet <= 101
        /\ UploadOver => gemini_file = None /\ errors = <<"UploadTimeout">>

\* C4: against a store that never leaves PROCESSING upload ends with the
\* timeout failure and no handle, after at most 101 get_file calls when the
\* calls take no time; and polling never goes on forever: once polling has
\* started, upload_to_gemini returns.
C4_TimeoutTerminates ==
    /\ []C4_StuckStoreBound
    /\ (pc = "poll") ~> UploadOver

\* C4 witness: zero-latency calls, the 101st get_file still reported
\* PROCESSING, and upload has returned the timeout failure.
C4_Witness ==
    /\ NeverLeftProcessing /\ latency = 0 /\ nGet = 101
    /\ pc = "upload_returned" /\ gemini_file = None
    /\ errors = <<"UploadTimeout">>

\* ---------------------------------------------------------------- C5
\* upload_to_gemini has returned on the strength of a get_file report:
\* the ACTIVE handle, or the FAILED / unexpected-state failure.
ReturnedFromGet ==
    /\ UploadOver /\ nGet >= 1 /\ reported # << >>
    /\ Last(reported) # "PROCESSING"
    /\ Len(reported) = nGet + 1

\* C5 as claimed: no ACTIVE handle and no FAILED / unexpected-state report is
\* returned from a get_file call that completed after more than TIMEOUT
\* seconds of waiting.
C5_NoResultAfterCeiling ==
    ReturnedFromGet => clock - start_time <= TIMEOUT

\* C5 amended: the ceiling is tested only at the head of a polling
\* iteration, before the sleep.  No sleep (and so no get_file) starts once
\* the wait exceeds TIMEOUT, and the timeout failure is raised only past it;
\* a report is accepted up to one poll interval plus one call's duration
\* past the ceiling.
C5_CeilingTestedBeforeSleep ==
    /\ pc = "sleep" => clock - start_time <= TIMEOUT
    /\ ReturnedFromGet => clock - start_time <= TIMEOUT + POLL_INTERVAL + latency
    /\ (UploadOver /\ errors = <<"UploadTimeout">>) =>
          /\ clock - start_time > TIMEOUT
          /\ Last(reported) = "PROCESSING"

\* C5 witness: an ACTIVE handle returned from a get_file call that completed
\* more than TIMEOUT seconds after polling started.
C5_Witness ==
    /\ ReturnedFromGet /\ pc = "upload_returned"
    /\ gemini_file = File(RemoteName, "ACTIVE")
    /\ clock - start_time > TIMEOUT

\* ---------------------------------------------------------------- C6
\* C6: when polling ends in FAILED upload returns the processing failure,
\* when it ends in ACTIVE it returns the handle, when it ends in any other
\* state it returns the unexpected-state failure; a handle is returned only
\* if the last state observed is ACTIVE.
C6_TerminalStates ==
    /\ gemini_file # None =>
          /\ reported # << >> /\ Last(reported) = "ACTIVE"
          /\ gemini_file.state = "ACTIVE"
    /\ (UploadOver /\ reported # << >>) =>
          /\ Last(reported) = "FAILED" =>
                gemini_file = None /\ errors = <<"RemoteProcessingFailed">>
          /\ Last(reported) = "ACTIVE" => gemini_file = File(RemoteName, "ACTIVE")
          /\ Last(reported) \notin {"FAILED", "ACTIVE", "PROCESSING"} =>
                gemini_file = None /\ errors = <<"UnexpectedState">>

\* C6 witness: polling ended, after one get_file, in a state that is none of
\* PROCESSING, ACTIVE, FAILED, and upload returned the unexpected-state failure.
C6_Witness ==
    /\ pc = "upload_returned" /\ nGet = 1
    /\ Last(reported) = "STATE_UNSPECIFIED"
    /\ gemini_file = None /\ errors = <<"UnexpectedState">>

\* ---------------------------------------------------------------- C7
Declared == work_input.uploaded_file_obj.type
Guessed == guess_type(work_input.uploaded_file_obj.name)
\* upload_to_gemini is past its MIME step for a work with a file object.
MimeStepDone ==
    /\ IsMedia /\ work_input.uploaded_file_obj.present
    /\ pc \notin {"start", "upload_to_gemini"}
UploadCalls == CallsWhere(IsUpload)

\* C7 as claimed: when the declared type is absent or generic and the
\* extension yields no guess, upload fails with the MIME-type-unknown error
\* without any remote upload call.
C7_GenericUnresolvedFails ==
    (MimeStepDone /\ Declared \in {"", GENERIC_MIME} /\ Guessed = "") =>
        /\ UploadCalls = {}
        /\ UploadOver => errors = <<"MimeTypeUnknown">>

\* C7 amended: the declared type is used when present and not generic; the
\* extension guess is used when the declared type is absent or generic and
\* there is a guess; a generic declared type with no guess is itself sent
\* with the upload; only an absent declared type with no guess fails with
\* the MIME-type-unknown error, and then no remote upload call is made.
C7_MimeResolution ==
    MimeStepDone =>
        /\ Declared \notin {"", GENERIC_MIME} => mime_type = Declared
        /\ (Declared \in {"", GENERIC_MIME} /\ Guessed # "") => mime_type = Guessed
        /\ (Declared = GENERIC_MIME /\ Guessed = "") => mime_type = GENERIC_MIME
        /\ (Declared = "" /\ Guessed = "") <=>
              (errors # << >> /\ errors[1] = "MimeTypeUnknown")
        /\ (Declared = "" /\ Guessed = "") => UploadCalls = {} /\ gemini_file = None
        /\ \A i \in UploadCalls : calls[i].mime_type = mime_type /\ mime_type # ""

\* C7 witness: a generic declared type, no guess from the extension, and the
\* remote upload call was made with the generic type.
C7_Witness ==
    /\ MimeStepDone /\ Declared = GENERIC_MIME /\ Guessed = ""
    /\ \E i \in UploadCalls : calls[i].mime_type = GENERIC_MIME

\* ---------------------------------------------------------------- C8
GenerateCalls == CallsWhere(IsGenerate)
IsPrefix(p, t) == Len(p) <= Len(t) /\ SubSeq(t, 1, Len(p)) = p
IsSuffix(x, t) == Len(x) <= Len(t) /\ SubSeq(t, Len(t) - Len(x) + 1, Len(t)) = x
\* The strategy text of a General call: its response text as the code keeps
\* it, leading and trailing whitespace stripped.
StrategyOf(c) == Strip(c.response[1])

\* C8: a two-tier analysis that succeeds has issued exactly two generation
\* calls, the General then the Soldier; the Soldier's prompt is the strategy
\* text returned by the General (stripped of surrounding whitespace) with
\* the work appended: the inline text, after the prompt in the same part,
\* for a text work, the uploaded file reference as a second part for media;
\* and the value returned is the Soldier's text.
C8_TwoTierOrderAndPrompt ==
    (strategy = "two_tier" /\ pc = "done" /\ result # NoText) =>
        \E g, x \in GenerateCalls :
            /\ GenerateCalls = {g, x} /\ g < x
            /\ calls[g].phase = "general" /\ ~calls[g].raised
            /\ calls[x].phase = "soldier" /\ ~calls[x].raised
            /\ calls[x].content[1].kind = "text"
            /\ IF work_input.modality = M_TEXT
               THEN /\ Len(calls[x].content) = 1
                    /\ IsPrefix(StrategyOf(calls[g]), calls[x].content[1].text)
                    /\ IsSuffix(work_input.data, calls[x].content[1].text)
                    /\ Len(calls[x].content[1].text)
                          > Len(StrategyOf(calls[g])) + Len(work_input.data)
               ELSE /\ Len(calls[x].content) = 2
                    /\ calls[x].content[1].text = StrategyOf(calls[g])
                    /\ calls[x].content[2] = FilePart(File(RemoteName, "ACTIVE"))
            /\ result = calls[x].response

\* C8 witness: a successful two-tier analysis of a media work whose General
\* returned a non-empty strategy padded with whitespace.
C8_Witness ==
    /\ strategy = "two_tier" /\ pc = "done" /\ result # NoText /\ IsMedia
    /\ \E g \in GenerateCalls :
          /\ calls[g].phase = "general" /\ ~calls[g].raised
          /\ StrategyOf(calls[g]) # << >>
          /\ StrategyOf(calls[g]) # calls[g].response[1]

\* ---------------------------------------------------------------- C9
\* C9: for a text work no upload_file, get_file or delete_file call is made
\* on any path, nothing is polled and no remote file comes to exist; an
\* analysis that returns text has issued exactly one generation call in
\* direct mode and exactly two in two-tier mode, and none issues more.
C9_TextBypassesUploader ==
    work_input.modality = M_TEXT =>
        /\ CallsWhere(IsUpload) = {} /\ CallsWhere(IsDelete) = {}
        /\ nGet = 0 /\ nSleep = 0 /\ remote = {}
        /\ Cardinality(GenerateCalls) <= (IF strategy = "direct" THEN 1 ELSE 2)
        /\ (pc = "done" /\ result # NoText) =>
              Cardinality(GenerateCalls) = (IF strategy = "direct" THEN 1 ELSE 2)

\* C9 witness: a two-tier analysis of a text work has returned text.
C9_Witness ==
    /\ work_input.modality = M_TEXT /\ work_input.data # << >>
    /\ strategy = "two_tier" /\ pc = "done" /\ result # NoText
    /\ result[1] # << >>

\* --------------------------------------------------------------- C10
\* The file references a generation call carries.
FilesIn(c) == {c.content[k].file : k \in {j \in DOMAIN c.content : c.content[j].kind = "file"}}

\* C10: for a media work at most one upload_file call is made, and it comes
\* before every generation call; every generation call carries the one
\* handle upload returned; delete_file comes after every generation call,
\* as the last remote call of the attempt, and only for that handle.
C10_UploadOnceReferenceTwice ==
    IsMedia =>
        /\ Cardinality(UploadCalls) <= 1
        /\ \A i \in GenerateCalls :
              /\ \E u \in UploadCalls : u < i /\ ~calls[u].raised
              /\ gemini_file # None /\ FilesIn(calls[i]) = {gemini_file}
              /\ \A d \in CallsWhere(IsDelete) : d > i
        /\ \A d \in CallsWhere(IsDelete) :
              /\ d = Len(calls) /\ pc = "done"
              /\ calls[d].name = gemini_file.name
              /\ \E u \in UploadCalls : u < d /\ calls[u].name = calls[d].name

\* C10 witness: a two-tier analysis of a media work made both generation
\* calls and then the delete.
C10_Witness ==
    /\ IsMedia /\ strategy = "two_tier" /\ pc = "done"
    /\ Cardinality(GenerateCalls) = 2
    /\ CallsWhere(IsDelete) = {Len(calls)}

\* --------------------------------------------------------------- C11
PhaseCalls(ph) == {i \in GenerateCalls : calls[i].phase = ph}
\* upload_to_gemini returned no handle for a media work.
UploadFailed == UploadOver /\ gemini_file = None
\* The meta (General) call was issued and raised.
MetaFailed == \E i \in PhaseCalls("general") : calls[i].raised
\* The execution call (Soldier, or the single call of V5) was issued and raised.
ExecutionFailed ==
    \E i \in PhaseCalls("soldier") \cup PhaseCalls("direct") : calls[i].raised

\* C11: one call of generate_analysis attempts the upload, the meta call and
\* the execution call at most once each (no retry); after a failed upload no
\* generation call is issued, after a failed meta call the execution call is
\* not issued, and in each of these cases, and when the execution call
\* fails, the value returned is None.
C11_NoRetry ==
    /\ Cardinality(UploadCalls) <= 1
    /\ \A ph \in {"general", "soldier", "direct"} : Cardinality(PhaseCalls(ph)) <= 1
    /\ Len(errors) <= 1
    /\ UploadFailed => GenerateCalls = {}
    /\ MetaFailed => PhaseCalls("soldier") = {}
    /\ (pc = "done" /\ (UploadFailed \/ MetaFailed \/ ExecutionFailed))
          => result = NoText

\* Reached: a media work was uploaded, the meta call raised, and the
\* analysis returned None without an execution call.
C11_Witness ==
    /\ pc = "done" /\ IsMedia /\ RemoteFileCreated
    /\ MetaFailed
    /\ PhaseCalls("soldier") = {}
    /\ result = NoText

\* --------------------------------------------------------------- C12
\* The meta call returned, and its stripped text (the strategy) is empty.
MetaEmpty ==
    \E i \in PhaseCalls("general") :
        ~calls[i].raised /\ Strip(calls[i].response[1]) = << >>
\* The execution call returned the empty text.
ExecutionEmpty ==
    \E i \in PhaseCalls("soldier") \cup PhaseCalls("direct") :
        ~calls[i].raised /\ calls[i].response = Some(<< >>)

\* C12: an empty generation is an analysis failure: when the meta call
\* returns an empty strategy text the execution call is not issued and the
\* analysis returns None with the analysis error reported; when the
\* execution call returns the empty text the returned value is one the
\* pipeline takes as a failed analysis.
C12_EmptyGenerationFails ==
    /\ MetaEmpty => /\ PhaseCalls("soldier") = {}
                    /\ pc \in {"finally", "done"} => /\ result = NoText
                                                     /\ errors = <<"AnalysisError">>
    /\ (pc = "done" /\ ExecutionEmpty) => ~Truthy(result)

\* --------------------------------------------------------------- C13
\* The lens and the work of the k-th generate_analysis call of a run.
StepLens(k) ==
    IF analysis_mode \in {A_SINGLE, A_COMPARATIVE} THEN selection.items[1]
    ELSE selection.items[k]
StepWork(k) == IF analysis_mode = A_COMPARATIVE /\ k = 2 THEN work_b ELSE work_a
\* The number of analyses the mode makes before its synthesis.
StepsOf(mode, sel) ==
    IF mode = A_SINGLE THEN 1
    ELSE IF mode = A_SYMPOSIUM THEN Len(sel.items) ELSE 2
\* A generate_analysis call is under way: entered and not yet returned.
AnalysisUnderWay == pc \notin {"idle", "done"}
\* The synthesis generator is about to be called or has been called.
AtSynthesis == app_pc = "synthesis" \/ synthesis_calls # << >>

\* C13: the pipeline is strictly sequential.  At most one generate_analysis
\* call is under way, and only while the run is at an analysis step; the
\* k-th call is made when the k-1 earlier ones have returned, in selection
\* order (dialectical: lens A then lens B; comparative: work A then work B;
\* symposium: the lenses in the order selected); the synthesis call is made
\* only when every analysis of the mode has returned and none is under way.
C13_StrictlySequential ==
    /\ AnalysisUnderWay => app_pc = "analysis"
    /\ Len(analyze_calls) = Len(analyses) + (IF app_pc = "analysis" THEN 1 ELSE 0)
    /\ \A k \in DOMAIN analyze_calls :
          /\ analyze_calls[k].lens = StepLens(k)
          /\ analyze_calls[k].work = StepWork(k)
    /\ Len(analyze_calls) <= StepsOf(analysis_mode, selection)
    /\ app_pc = "analysis" => work_input = Last(analyze_calls).work
    /\ AtSynthesis =>
          /\ analysis_mode # A_SINGLE
          /\ ~AnalysisUnderWay
          /\ Len(analyses) = StepsOf(analysis_mode, selection)
    /\ Len(synthesis_calls) <= 1

\* Reached: a symposium over a media work whose synthesis call has been
\* made after three analyses.
C13_Witness ==
    /\ analysis_mode = A_SYMPOSIUM
    /\ work_a.modality = M_IMAGE
    /\ Len(analyses) = 3
    /\ Len(synthesis_calls) = 1

\* --------------------------------------------------------------- C14
\* The k-th analysis of the run returned a value the pipeline takes as a
\* failure (None or the empty text).
AnalysisFailed(k) == k \in DOMAIN analyses /\ ~Truthy(analyses[k])

\* C14: the pipeline halts on the first failing analysis.  When the k-th
\* analysis of a run has failed, exactly k generate_analysis calls have
\* been made, none is under way, the run is over and no synthesis call has
\* been made (symposium over L1..LN with first failure at Li: i calls).
C14_HaltOnFirstFailure ==
    \A k \in DOMAIN analyses :
        AnalysisFailed(k) =>
            /\ Len(analyze_calls) = k
            /\ Len(analyses) = k
            /\ app_pc = "finished"
            /\ ~AnalysisUnderWay
            /\ synthesis_calls = << >>

\* Reached: a symposium over three lenses whose second analysis failed
\* after a first that succeeded.
C14_Witness ==
    /\ analysis_mode = A_SYMPOSIUM
    /\ Len(selection.items) = 3
    /\ Len(analyses) = 2
    /\ Truthy(analyses[1])
    /\ AnalysisFailed(2)
    /\ Len(analyze_calls) = 2

\* --------------------------------------------------------------- C15
SymposiumCalls == {i \in DOMAIN synthesis_calls : synthesis_calls[i].generator = "symposium"}
\* One <<lens, analysis>> pair per selected lens, in selection order.
OnePerLens ==
    [i \in DOMAIN selection.items |-> <<selection.items[i], analyses[i][1]>>]

\* C15: generate_symposium_synthesis is called only in symposium mode, with
\* at least three lenses selected, all different, each of which produced an
\* analysis, and the analyses it is given are exactly one per selected
\* lens.
C15_SymposiumNeedsThree ==
    \A i \in SymposiumCalls :
        /\ analysis_mode = A_SYMPOSIUM
        /\ selection.kind = "list"
        /\ Len(selection.items) >= 3
        /\ \A j, k \in DOMAIN selection.items :
              selection.items[j] = selection.items[k] => j = k
        /\ Len(analyses) = Len(selection.items)
        /\ \A k \in DOMAIN analyses : Truthy(analyses[k])
        /\ synthesis_calls[i].prompt =
              SymposiumPrompt(OnePerLens, get_display_title(work_a))

\* Reached: the symposium synthesis call has been made for three selected
\* lenses on a text work.
C15_Witness ==
    /\ SymposiumCalls # {}
    /\ Len(selection.items) = 3
    /\ work_a.modality = M_TEXT
    /\ \A k \in DOMAIN analyses : Truthy(analyses[k])

\* --------------------------------------------------------------- C16
DialecticalCalls ==
    {i \in DOMAIN synthesis_calls : synthesis_calls[i].generator = "dialectical"}
\* The prompt carries the text, as given, between the tags of the section.
Embeds(prompt, tag, text) ==
    Contains(prompt, <<"<" \o tag \o ">", NL>> \o text \o <<NL, "</" \o tag \o ">">>)

\* C16: called with two analysis texts and two lens names, the dialectical
\* synthesis makes exactly one generation call, and the prompt of that call
\* contains both analysis texts verbatim and the two persona titles that
\* create_persona_name derives from the lens names.
C16_DialecticalPrompt ==
    (analysis_mode = A_DIALECTICAL /\ app_pc = "finished") =>
        /\ Len(synthesis_calls) = 1
        /\ DialecticalCalls = {1}
        /\ Embeds(synthesis_calls[1].prompt, "analysis_a", analyses[1][1])
        /\ Embeds(synthesis_calls[1].prompt, "analysis_b", analyses[2][1])
        /\ Contains(synthesis_calls[1].prompt, create_persona_name(selection.items[1]))
        /\ Contains(synthesis_calls[1].prompt, create_persona_name(selection.items[2]))

\* --------------------------------------------------------------- C17
\* A step in which a synthesis generator makes its generation call.
SynthesisCallMade == Len(synthesis_calls') > Len(synthesis_calls)

\* C17: a synthesis generator (dialectical, symposium, comparative) makes
\* at most one generation call per invocation and no upload, get or delete
\* call; it returns after that call whatever the outcome (no retry), with
\* None when the call raised and with the text of the response otherwise.
C17_SynthesisOneCall ==
    /\ [](/\ Len(synthesis_calls) <= 1
          /\ \A i \in DOMAIN synthesis_calls :
                /\ synthesis_calls[i].generator =
                      (IF analysis_mode = A_DIALECTICAL THEN "dialectical"
                       ELSE IF analysis_mode = A_SYMPOSIUM THEN "symposium"
                       ELSE "comparative")
                /\ synthesis_calls[i].raised => synthesis_result = NoText
                /\ ~synthesis_calls[i].raised =>
                      synthesis_result = synthesis_calls[i].response)
    /\ [][SynthesisCallMade =>
            /\ Len(synthesis_calls') = Len(synthesis_calls) + 1
            /\ app_pc = "synthesis" /\ app_pc' = "finished"
            /\ calls' = calls /\ nGet' = nGet /\ nSleep' = nSleep
            /\ remote' = remote /\ gemini_file' = gemini_file
            /\ analyze_calls' = analyze_calls]_vars

\* Reached: the comparative synthesis call raised, after analyses of two
\* works of which one was uploaded, and None was returned.
C17_Witness ==
    /\ analysis_mode = A_COMPARATIVE
    /\ Len(synthesis_calls) = 1
    /\ synthesis_calls[1].raised
    /\ synthesis_result = NoText
    /\ app_pc = "finished"
    /\ work_b.modality = M_IMAGE

\* --------------------------------------------------------------- C18
\* A delete_file call of the generate_analysis call under way (or just
\* returned) raised.
DeleteRaised == \E i \in DOMAIN calls : IsDelete(calls[i]) /\ calls[i].raised
\* Where the run stands, as the values returned by its analyses alone
\* determine it: over after a failure, else at the next analysis, else at
\* (or past) the synthesis.
ProgressByResults ==
    LET k == Len(analyses)
        N == StepsOf(analysis_mode, selection)
    IN  IF \E j \in 1..k : AnalysisFailed(j)
        THEN app_pc = "finished" /\ synthesis_calls = << >>
        ELSE IF k < N
        THEN app_pc = "analysis" /\ Len(analyze_calls) = k + 1
        ELSE IF analysis_mode = A_SINGLE THEN app_pc = "finished"
        ELSE AtSynthesis

\* C18: a failure of delete_file in the cleanup is never escalated.  The
\* finally block leaves the value generate_analysis returns, the errors
\* shown and the state of the run as they were, whether delete_file
\* succeeds or raises; and where a run stands is determined by the values
\* its analyses returned, so it goes on or halts as with a successful
\* delete.
C18_DeleteFailureIgnored ==
    /\ [][(pc = "finally" /\ pc' = "done") =>
            /\ result' = result
            /\ errors' = errors
            /\ UNCHANGED appVars]_vars
    /\ [](analyze_calls # << >> => ProgressByResults)

\* Reached: the delete of the second analysis raised, both analyses had
\* returned a text, and the synthesis call was made.
C18_Witness ==
    /\ analysis_mode = A_DIALECTICAL
    /\ DeleteRaised
    /\ Len(analyses) = 2
    /\ Truthy(analyses[1]) /\ Truthy(analyses[2])
    /\ Len(synthesis_calls) = 1

\* --------------------------------------------------------------- C19
ErrorsOnPage == {i \in DOMAIN page : page[i].kind = "error"}
\* An error message on the page names the k-th analysis of the run as the
\* stage that failed: by its step number, or by its lens where the lens
\* tells the analyses apart; a run of a single analysis has one stage.
NamesAnalysis(k) ==
    \E i \in ErrorsOnPage :
        \/ StepsOf(analysis_mode, selection) = 1
        \/ page[i].step = k
        \/ /\ page[i].lens = StepLens(k)
           /\ \A j \in 1..StepsOf(analysis_mode, selection) :
                 StepLens(j) = StepLens(k) => j = k
\* The synthesis call failed: it raised, or returned the empty text.
SynthesisFailed == synthesis_calls # << >> /\ ~Truthy(synthesis_result)
NamesSynthesis ==
    \E i \in ErrorsOnPage :
        page[i].text \in {"An error occurred during dialectical synthesis",
                          "An error occurred during symposium synthesis",
                          "An error occurred during comparative synthesis"}

\* C19: every failure of a pipeline step produces a message that names the
\* failing stage.  When a run is over, a failed analysis (upload included)
\* has an error message naming that analysis (in a dialectical or
\* comparative run: telling the first from the second), and a failed
\* synthesis has an error message naming the synthesis.
C19_FailureNamesStage ==
    (app_pc = "finished" /\ analyze_calls # << >>) =>
        /\ \A k \in DOMAIN analyses : AnalysisFailed(k) => NamesAnalysis(k)
        /\ SynthesisFailed => NamesSynthesis

\* ----------------------------------------------------------------- C20
\* The leaves of the catalog: under v7.2 the lens names listed under the
\* categories; under V5 the composite name of every sub-lens of a category
\* that holds sub-lenses, and the name of a category that holds none.
LeafNames ==
    IF strategy = "two_tier"
    THEN UNION {ToSet(LENSES_HIERARCHY[i][2]) : i \in DOMAIN LENSES_HIERARCHY}
    ELSE UNION {
            IF LENSES_HIERARCHY[i][2].sub_lenses # << >>
            THEN {CompositeName(LENSES_HIERARCHY[i][1], s) :
                    s \in ToSet(LENSES_HIERARCHY[i][2].sub_lenses)}
            ELSE {LENSES_HIERARCHY[i][1]}
            : i \in DOMAIN LENSES_HIERARCHY}

Flattened == SORTED_LENS_NAMES # << >>

\* C20: for every well-formed catalog the flattened list is in ascending
\* lexicographic order, has no entry twice, and its entries are exactly the
\* leaf lens names of the catalog: sub-lenses of a category that holds
\* sub-lenses, and a category without sub-lenses itself.
C20_FlattenSortedUniqueLeaves ==
    Flattened =>
        /\ \A i \in DOMAIN SORTED_LENS_NAMES : \A j \in DOMAIN SORTED_LENS_NAMES :
              i < j => /\ SORTED_LENS_NAMES[i] # SORTED_LENS_NAMES[j]
                       /\ StrLess(SORTED_LENS_NAMES[i], SORTED_LENS_NAMES[j])
        /\ ToSet(SORTED_LENS_NAMES) = LeafNames

\* A V5 catalog with a category that is a leaf itself listed before a
\* category holding sub-lenses, flattened into an order that is not the
\* catalog's.
C20_Witness ==
    /\ Flattened
    /\ strategy = "direct"
    /\ Len(LENSES_HIERARCHY) = 2
    /\ ~LENSES_HIERARCHY[1][2].has_sub_lenses
    /\ LENSES_HIERARCHY[2][2].has_sub_lenses
    /\ SORTED_LENS_NAMES[Len(SORTED_LENS_NAMES)] = LENSES_HIERARCHY[1][1]

\* ----------------------------------------------------------------- C21
\* The leaves the tier assignment covers.
MappingLeaves == UNION {ToSet(mapping[i][2]) : i \in DOMAIN mapping}

Regrouped == LENSES_FUNCTIONAL # << >>

\* The three-tier mapping is returned: the three tiers in their order, each
\* holding the lenses the assignment gives it.
ThreeTiersReturned ==
    /\ [i \in DOMAIN LENSES_FUNCTIONAL |-> LENSES_FUNCTIONAL[i][1]] = TierNames
    /\ \A i \in DOMAIN LENSES_FUNCTIONAL :
          /\ Len(LENSES_FUNCTIONAL[i][2]) = Len(mapping[i][2])
          /\ ToSet(LENSES_FUNCTIONAL[i][2]) = ToSet(mapping[i][2])

\* C21: when the catalog and the tier assignment cover the same leaves no
\* warning is logged; when exactly one catalog leaf is absent from the tier
\* assignment exactly one warning is logged, and it names that leaf; in both
\* cases the three-tier mapping is still returned.
C21_IntegrityWarnings ==
    Regrouped =>
        /\ LeafNames = MappingLeaves => logged = << >>
        /\ \A leaf \in LeafNames :
              LeafNames \ MappingLeaves = {leaf} => logged = << {leaf} >>
        /\ ThreeTiersReturned

\* A catalog of two leaves regrouped with an assignment that covers one.
C21_Witness ==
    /\ Regrouped
    /\ Cardinality(LeafNames) = 2
    /\ Cardinality(LeafNames \ MappingLeaves) = 1
    /\ Len(logged) = 1
    /\ ThreeTiersReturned

\* ----------------------------------------------------------------- C22
\* A leaf some logged warning names.
Warned(leaf) == \E i \in DOMAIN logged : leaf \in logged[i]

\* C22: a leaf the tier assignment covers that is not reachable from the
\* catalog is named by a warning, as a catalog leaf missing from the tier
\* assignment is.
C22_SymmetricCheck ==
    Regrouped =>
        /\ \A leaf \in LeafNames \ MappingLeaves : Warned(leaf)
        /\ \A leaf \in MappingLeaves \ LeafNames : Warned(leaf)

\* ----------------------------------------------------------------- C30
\* The places a lens name stands at in a sequence of <<key, list>> items.
Places(items, lens) ==
    UNION {{<<i, j>> : j \in {k \in DOMAIN items[i][2] : items[i][2][k] = lens}} :
            i \in DOMAIN items}

Ascending(list) ==
    \A i \in DOMAIN list : \A j \in DOMAIN list : i < j => StrLess(list[i], list[j])

\* C30: for the catalog and mapping literal v7.2 ships, the regrouping has
\* exactly the three tiers, every lens of the catalog stands in exactly one
\* tier, no tier holds a lens that is not in the catalog, no lens stands in
\* two categories of the catalog, and the list of every tier is sorted.
C30_ShippedPartition ==
    (Regrouped /\ LENSES_HIERARCHY = ShippedHierarchy /\ mapping = ShippedMapping) =>
        /\ [i \in DOMAIN LENSES_FUNCTIONAL |-> LENSES_FUNCTIONAL[i][1]] = TierNames
        /\ \A lens \in LeafNames :
              /\ Cardinality(Places(LENSES_FUNCTIONAL, lens)) = 1
              /\ Cardinality(Places(LENSES_HIERARCHY, lens)) = 1
        /\ \A i \in DOMAIN LENSES_FUNCTIONAL :
              /\ ToSet(LENSES_FUNCTIONAL[i][2]) \subseteq LeafNames
              /\ Ascending(LENSES_FUNCTIONAL[i][2])

\* The shipped catalog, regrouped without a warning.
C30_Witness ==
    /\ Regrouped
    /\ LENSES_HIERARCHY = ShippedHierarchy
    /\ mapping = ShippedMapping
    /\ logged = << >>

Term == IF lens_key.sub_lens # << >> THEN lens_key.sub_lens ELSE lens_key.main_lens

\* The terms the exact-match rules of a revision name, with their titles:
\* fixed titles (overrides) and the Analyst, Critic, Philosopher and
\* Ethicist families.
ExactTitles(rev) ==
    {<< <<"Structural & Formalist">>, <<"The Formalist">> >>,
     << <<"Historical & Biographical">>, <<"The Historian">> >>,
     << <<"Comparative">>, <<"The Comparativist">> >>,
     << <<"Jungian">>, <<"The ", "Jungian", " Analyst">> >>,
     << <<"Freudian">>, <<"The ", "Freudian", " Analyst">> >>,
     << <<"Marxist">>, <<"The ", "Marxist", " Critic">> >>,
     << <<"Feminist">>, <<"The ", "Feminist", " Critic">> >>,
     << <<"Existentialist">>, <<"The ", "Existentialist", " Philosopher">> >>,
     << <<"Taoist">>, <<"The ", "Taoist", " Philosopher">> >>}
    \cup
    IF rev = "V3" THEN {}
    ELSE {<< <<"General">>, <<"The Comparativist">> >>,
          << <<"Evolutionary Psychology">>, <<"The Evolutionary Psychologist">> >>,
          << <<"Behaviorism">>, <<"The Behaviorist">> >>,
          << <<"Phenomenological">>, <<"The ", "Phenomenological", " Philosopher">> >>,
          << <<"Stoicism">>, <<"The Stoic Philosopher">> >>,
          << <<"Platonism">>, <<"The Platonic Philosopher">> >>,
          << <<"Utilitarian", "ism">>, <<"The ", "Utilitarian", " Ethicist">> >>,
          << <<"Virtue Ethics">>, <<"The ", "Virtue Ethics", " Ethicist">> >>,
          << <<"Cognitive Science">>, <<"The Cognitive Scientist">> >>,
          << <<"Systems", " Theory">>, <<"The Systems Theorist">> >>,
          << <<"Ecocriticism">>, <<"The Ecocritic">> >>,
          << <<"Buddhist">>, <<"The Buddhist Scholar">> >>,
          << <<"Western Esotericism">>, <<"The Esotericist">> >>}

ExactlyNamed(rev) == {p[1] : p \in ExactTitles(rev)}

\* The term with every "Theory" taken out, and the space before it.
WithoutTheory(term) == SelectSeq(term, LAMBDA t : t # "Theory" /\ t # " Theory")

\* The title ends in the word.
EndsIn(title, word) == title # << >> /\ title[Len(title)] = word

\* The operative term decides the title: the key gets the title its
\* operative term gets when it is the whole key.
ByOperativeTerm(call) ==
    call[2] = IF call[1] = "V5" THEN create_persona_name(Term)
              ELSE create_persona_name_V3(Term)

\* Exact matches come first: a term an exact-match rule names gets the
\* title of that rule, also when it contains "Theory".
ExactFirst(call) ==
    \A p \in ExactTitles(call[1]) : Term = p[1] => call[2] = p[2]

\* A term containing "Theory" that no exact-match rule names.
TheoryRule(call) ==
    (HasTheory(Term) /\ Term \notin ExactlyNamed(call[1]))
        => call[2] = <<"The ">> \o WithoutTheory(Term) \o <<" Theorist">>

\* A term no rule matches.
FallbackRule(call) ==
    (Term \notin ExactlyNamed(call[1]) /\ ~HasTheory(Term) /\ Term # <<"Post-Colonial">>)
        => call[2] = <<"The ">> \o Term \o <<" Scholar">>

\* name_persona("Socio-Political (Marxist)").
MarxistExample(call) ==
    (lens_key = [main_lens |-> <<"Socio-Political">>, sub_lens |-> <<"Marxist">>])
        => Has(call[2], "Marxist") /\ EndsIn(call[2], " Critic")

\* C24: the title follows from the operative term (the sub-lens of a
\* composite key, otherwise the whole key) by the rules in their order:
\* exact matches first, then "The <term without Theory> Theorist" for a
\* term containing "Theory", and "The <term> Scholar" for a term no rule
\* matches; the title of "Socio-Political (Marxist)" contains "Marxist" and
\* ends in "Critic".
C24_RulesInOrder ==
    \A i \in DOMAIN persona_titles :
        /\ ByOperativeTerm(persona_titles[i])
        /\ ExactFirst(persona_titles[i])
        /\ TheoryRule(persona_titles[i])
        /\ FallbackRule(persona_titles[i])
        /\ MarxistExample(persona_titles[i])

\* ----------------------------------------------------------------- C25
\* C25: is_ready returns true exactly when the work is a text work with a
\* payload that is not empty, or an image or audio work with a file object
\* attached; the field of the other kind makes no difference.
C25_ReadyIff ==
    ready # << >> =>
        ready[1] = (\/ /\ work_input.modality = M_TEXT
                       /\ work_input.data # << >>
                    \/ /\ work_input.modality \in {M_IMAGE, M_AUDIO}
                       /\ work_input.uploaded_file_obj.present)

\* A text work without payload that has a file object attached is found
\* not ready.
C25_Witness ==
    /\ ready = <<FALSE>>
    /\ work_input.modality = M_TEXT
    /\ work_input.data = << >>
    /\ work_input.uploaded_file_obj.present

\* ----------------------------------------------------------------- C26
\* What the Execute validation asks for.
InputsValid ==
    /\ api_key # ""
    /\ is_ready(work_a)
    /\ analysis_mode = A_COMPARATIVE => is_ready(work_b)

\* get_model has called genai.configure in this run: the run is in the
\* execution block, or has left it, or shows the initialisation error.
ModelConfigured ==
    \/ app_pc \in {"analysis", "synthesis"}
    \/ analyze_calls # << >>
    \/ \E i \in DOMAIN page : page[i].text = "Failed to initialize Gemini API"

\* Some remote call of this run: configuration, upload, poll, generation,
\* delete.
RemoteCallMade ==
    \/ ModelConfigured
    \/ calls # << >>
    \/ nGet > 0
    \/ synthesis_calls # << >>

WarningsShown == \E i \in DOMAIN page : page[i].kind = "warning"

\* C26: a run makes a remote call only with an API key that is not empty,
\* a ready work A and, in comparative mode, a ready work B; a run that shows
\* a validation warning shows nothing but warnings, has failed one of these
\* tests, has made no remote call and has touched nothing of the pipeline.
C26_NoCallUnlessValid ==
    /\ RemoteCallMade => InputsValid
    /\ WarningsShown =>
          /\ ~InputsValid
          /\ \A i \in DOMAIN page : page[i].kind = "warning"
          /\ ~RemoteCallMade
          /\ app_pc = "finished"
          /\ pc = "idle"
          /\ analyses = << >>
          /\ synthesis_result = NoText

\* Comparative mode, key entered, work A ready, work B not: the click shows
\* the warning for work B.
C26_Witness ==
    /\ WarningsShown
    /\ analysis_mode = A_COMPARATIVE
    /\ api_key # ""
    /\ is_ready(work_a)
    /\ ~is_ready(work_b)

\* ----------------------------------------------------------------- C27
\* The execution block of this run has been entered.
PipelineEntered == app_pc \in {"analysis", "synthesis"} \/ analyze_calls # << >>

TwoDifferentLenses(sel) ==
    /\ sel.kind = "list"
    /\ Len(sel.items) = 2
    /\ sel.items[1] \in LensNames
    /\ sel.items[2] \in LensNames
    /\ sel.items[1] # sel.items[2]

\* C27: in dialectical mode the stored selection is never a pair of the
\* same lens, and the pipeline runs only with a stored list of exactly two
\* different lens names: its analyses are of work A through those lenses in
\* their order, and the synthesis call is made with exactly two analyses.
C27_TwoDifferentLenses ==
    analysis_mode = A_DIALECTICAL =>
        /\ selection.kind = "list" /\ selection.items # << >>
              => TwoDifferentLenses(selection)
        /\ PipelineEntered =>
              /\ TwoDifferentLenses(selection)
              /\ Len(analyze_calls) <= 2
              /\ \A k \in DOMAIN analyze_calls :
                    /\ analyze_calls[k].lens = selection.items[k]
                    /\ analyze_calls[k].work = work_a
              /\ synthesis_calls # << >> =>
                    /\ Len(analyze_calls) = 2
                    /\ Len(analyses) = 2

\* The dialectical synthesis call has been made.
C27_Witness ==
    /\ analysis_mode = A_DIALECTICAL
    /\ synthesis_calls # << >>
    /\ TwoDifferentLenses(selection)

\* ----------------------------------------------------------------- C28
\* The stored selection has the shape the mode works with.
ShapeMatchesMode ==
    IF analysis_mode \in {A_SINGLE, A_COMPARATIVE}
    THEN selection.kind = "str" /\ selection.items[1] \in LensNames
    ELSE IF analysis_mode = A_DIALECTICAL
    THEN selection.kind = "list" /\ Len(selection.items) = 2
    ELSE selection.kind = "list" /\ Len(selection.items) >= 3

\* A run in which the mode changes stores None as the selection and ends
\* there: no form, no pipeline step.
ModeChangeResets ==
    analysis_mode' # analysis_mode =>
        /\ selection' = SelNone
        /\ app_pc' = "idle"
        /\ analyze_calls' = << >>
        /\ synthesis_calls' = << >>
        /\ page' = << >>

\* C28: a change of mode resets the stored selection to None and reruns
\* before any form or pipeline step, and the pipeline only ever runs with a
\* stored selection of the shape of the current mode: one lens name for
\* Single and Comparative, a list of two for Dialectical, a list of three or
\* more for Symposium.
C28_SelectionMatchesMode ==
    /\ [](PipelineEntered => ShapeMatchesMode)
    /\ [][ModeChangeResets]_vars

\* A symposium pipeline running after the mode has been changed to it.
C28_Witness ==
    /\ analysis_mode = A_SYMPOSIUM
    /\ PipelineEntered
    /\ Len(selection.items) >= 3

\* ---------------------------------------------------------------- C29
\* Remote file handles the generate_analysis call of the state has obtained
\* (genai.upload_file returned a file) and on which genai.delete_file has
\* not been called since.
HeldHandles ==
    {i \in DOMAIN calls :
        /\ IsUpload(calls[i])
        /\ ~calls[i].raised
        /\ \A j \in DOMAIN calls :
              j > i => ~(IsDelete(calls[j]) /\ calls[j].name = calls[i].name)}
\* The step enters generate_analysis for the next analysis of the run.
AnalysisBegins == Len(analyze_calls') > Len(analyze_calls)
\* The run is a multi-step pipeline over a media work.
MediaPipeline ==
    /\ analysis_mode # A_SINGLE
    /\ PipelineEntered
    /\ work_a.modality \in {M_IMAGE, M_AUDIO}

\* C29: in a multi-step pipeline over a media work each analysis uploads its
\* own copy and releases it (calls delete_file on it) before the next
\* analysis starts.  At every point of the run at most one handle has been
\* obtained and not yet deleted; an analysis that has its handle made one
\* upload of its own; no analysis is entered while the handle of the
\* analysis before it is held; and no handle is held when the synthesis
\* call is about to be made, is made or has been made.
C29_OneHandleAtATime ==
    /\ [](Cardinality(HeldHandles) <= 1)
    /\ [](MediaPipeline /\ gemini_file # None /\ pc \in {"general", "soldier", "generate"}
            => /\ Cardinality(CallsWhere(IsUpload)) = 1
               /\ HeldHandles = CallsWhere(IsUpload))
    /\ [](AtSynthesis => HeldHandles = {})
    /\ [][AnalysisBegins \/ SynthesisCallMade => HeldHandles = {}]_vars

\* Reached: the second analysis of a multi-step pipeline over an image holds
\* the handle of its own upload, the first analysis having returned a text.
C29_Witness ==
    /\ MediaPipeline
    /\ Len(analyze_calls) = 2
    /\ Truthy(analyses[1])
    /\ pc = "general"
    /\ gemini_file # None
    /\ Cardinality(HeldHandles) = 1

=============================================================================
